---- MODULE Spec2Model ----
(***************************************************************************)
(* Extraction reconciliation pipeline of the order-document extractor:     *)
(* page cleaner, color resolution, cross-page merge and post-processing,   *)
(* barcode generation and numeric recovery.                                *)
(*                                                                         *)
(* Python values are modelled as tagged records, one payload name per tag  *)
(* so that values of different Python types stay comparable:               *)
(*   None -> [t |-> "null"]        int/float n -> [t |-> "num", n |-> n]   *)
(*   float nan / inf / -inf -> [t |-> "nan"] / "inf" / "-inf"              *)
(*   str -> [t |-> "str", s |-> <<characters>>]                            *)
(*   list -> [t |-> "list", items |-> <<...>>]                             *)
(*   dict -> [t |-> "dict", d |-> record]  (key present iff in DOMAIN)     *)
(* Once the cleaner has established the container types, dicts are plain   *)
(* records and lists plain sequences.  Codes (color, size, supplier code,  *)
(* barcode) and strings that are parsed are sequences of one-character     *)
(* strings; names and labels are strings.  Prices are integers in cents,   *)
(* markups integers in hundredths.                                         *)
(***************************************************************************)
EXTENDS Integers, Sequences, FiniteSets, TLC

VARIABLES
    pc,               \* position of extract_document
    context_info,     \* the document context (supplier, brand)
    total_pages,      \* len(image_paths)
    page_num,         \* page the loop of extract_document is at
    combined_result,  \* accumulator: products and order_info
    post_processed,   \* value returned by _post_process_products
    job,              \* jobs_store[job_id]["model_results"]["gemini"]
    document_job,     \* jobs_store[job_id], the record of the document's job
    page_results,     \* the page_result of each iteration of the page loop so far
    fn,               \* which function a function-level run exercises
    fn_in,            \* its argument
    fn_out            \* its result

vars == <<pc, context_info, total_pages, page_num, combined_result,
          post_processed, job, document_job, page_results, fn, fn_in, fn_out>>

----------------------------------------------------------------------------
(* Python values *)

JNull == [t |-> "null"]
JNaN == [t |-> "nan"]
JInf == [t |-> "inf"]
JNegInf == [t |-> "-inf"]
JNum(n) == [t |-> "num", n |-> n]
JStr(s) == [t |-> "str", s |-> s]
JList(items) == [t |-> "list", items |-> items]
JDict(d) == [t |-> "dict", d |-> d]
PyError == [t |-> "error"]
\* a raised exception where the normal result is a list
Raised == <<PyError>>
HasRaised(xs) == xs # <<>> /\ xs[1] = PyError

IsNumber(x) == x.t \in {"num", "nan", "inf", "-inf"}
IsFinite(x) == x.t = "num"

\* bool(x)
Truthy(x) ==
    CASE x.t = "null" -> FALSE
      [] x.t = "num" -> x.n # 0
      [] x.t = "str" -> Len(x.s) # 0
      [] x.t = "list" -> x.items # <<>>
      [] x.t = "dict" -> DOMAIN x.d # {}
      [] OTHER -> TRUE

\* d.get(k, default) and d[k] = v on a dict held as a record
Get(d, k, default) == IF k \in DOMAIN d THEN d[k] ELSE default
Put(d, k, v) == [y \in DOMAIN d \cup {k} |-> IF y = k THEN v ELSE d[y]]

\* float arithmetic on the tagged numbers (IEEE rules for nan and inf)
Sign(x) ==
    CASE x.t = "num" -> (IF x.n > 0 THEN 1 ELSE IF x.n < 0 THEN -1 ELSE 0)
      [] x.t = "inf" -> 1
      [] x.t = "-inf" -> -1
      [] OTHER -> 0

FMul(a, b) ==
    IF a.t = "nan" \/ b.t = "nan" THEN JNaN
    ELSE IF a.t = "num" /\ b.t = "num" THEN JNum(a.n * b.n)
    ELSE IF Sign(a) * Sign(b) = 0 THEN JNaN
    ELSE IF Sign(a) * Sign(b) > 0 THEN JInf ELSE JNegInf

FAdd(a, b) ==
    IF a.t = "nan" \/ b.t = "nan" THEN JNaN
    ELSE IF a.t = "num" /\ b.t = "num" THEN JNum(a.n + b.n)
    ELSE IF a.t = "num" THEN b
    ELSE IF b.t = "num" THEN a
    ELSE IF a.t = b.t THEN a ELSE JNaN

\* x <= 0 and x > 0 on numbers: every comparison with nan is False
LeqZero(x) == (x.t = "num" /\ x.n <= 0) \/ x.t = "-inf"
GtZero(x) == (x.t = "num" /\ x.n > 0) \/ x.t = "inf"

RECURSIVE FSum(_)
FSum(xs) == IF xs = <<>> THEN JNum(0) ELSE FAdd(xs[1], FSum(Tail(xs)))

RECURSIVE SelectSeqBy(_, _)
\* the subsequence of xs at the indices in keep
SelectSeqBy(xs, keep) ==
    IF xs = <<>> THEN <<>>
    ELSE LET rest == SelectSeqBy(Tail(xs), {i - 1 : i \in keep \ {1}})
         IN IF 1 \in keep THEN <<xs[1]>> \o rest ELSE rest


----------------------------------------------------------------------------
(* Character-level strings *)

DigitChars == <<"0", "1", "2", "3", "4", "5", "6", "7", "8", "9">>
IsDigitChar(c) == \E i \in DOMAIN DigitChars : DigitChars[i] = c
DigitVal(c) == (CHOOSE i \in DOMAIN DigitChars : DigitChars[i] = c) - 1
IsDigits(s) == \A i \in DOMAIN s : IsDigitChar(s[i])

RECURSIVE DecVal(_)
\* int(s) for a string of decimal digits
DecVal(s) == IF s = <<>> THEN 0 ELSE DecVal(SubSeq(s, 1, Len(s) - 1)) * 10 + DigitVal(s[Len(s)])

RECURSIVE Dec(_)
\* str(n) for n >= 0
Dec(n) == IF n < 10 THEN <<DigitChars[n + 1]>> ELSE Dec(n \div 10) \o <<DigitChars[(n % 10) + 1]>>

RECURSIVE zfill(_, _)
\* s.zfill(width): pads on the left, never truncates
zfill(s, width) == IF Len(s) >= width THEN s ELSE zfill(<<"0">> \o s, width)

\* float(x) of extraction_agent.py:358: ValueError/TypeError are PyError
float(x) ==
    CASE IsNumber(x) -> x
      [] x.t = "str" ->
            IF x.s # <<>> /\ IsDigits(x.s) THEN JNum(DecVal(x.s))
            ELSE IF x.s = <<"n", "a", "n">> \/ x.s = <<"N", "a", "N">> THEN JNaN
            ELSE IF x.s = <<"i", "n", "f">> THEN JInf
            ELSE PyError
      [] OTHER -> PyError

----------------------------------------------------------------------------
(* ExtractionAgent._extract_and_clean_json, from the parsed JSON object on *)

\* one entry of color["sizes"]: <<>> when dropped, else the kept entry
CleanSize(size) ==
    IF size.t # "dict" THEN <<>>
    ELSE IF "size" \notin DOMAIN size.d \/ "quantity" \notin DOMAIN size.d THEN <<>>
    ELSE LET quantity == float(size.d.quantity)
         IN IF quantity = PyError THEN <<>>
            ELSE IF LeqZero(quantity) THEN <<>>
            ELSE <<Put(size.d, "quantity", quantity)>>

RECURSIVE CleanSizes(_)
CleanSizes(sizes) ==
    IF sizes = <<>> THEN <<>> ELSE CleanSize(sizes[1]) \o CleanSizes(Tail(sizes))

\* one entry of product["colors"]: <<>> when dropped
CleanColor(color) ==
    IF color.t # "dict" THEN <<>>
    ELSE LET c1 == IF "color_code" \in DOMAIN color.d THEN color.d
                   ELSE Put(color.d, "color_code", JNull)
             c2 == IF "sizes" \in DOMAIN c1 THEN c1 ELSE Put(c1, "sizes", JList(<<>>))
         IN IF c2.sizes.t = "list"
            THEN LET clean_sizes == CleanSizes(c2.sizes.items)
                 IN IF clean_sizes # <<>> THEN <<Put(c2, "sizes", clean_sizes)>> ELSE <<>>
            ELSE <<>>

RECURSIVE CleanColors(_)
CleanColors(colors) ==
    IF colors = <<>> THEN <<>> ELSE CleanColor(colors[1]) \o CleanColors(Tail(colors))

\* unit_price, sales_price, subtotal of a kept color: float or None
CoercePrice(color, field) ==
    IF field \in DOMAIN color /\ color[field].t # "null"
    THEN Put(color, field, IF float(color[field]) = PyError THEN JNull ELSE float(color[field]))
    ELSE color

CoercePrices(color) ==
    CoercePrice(CoercePrice(CoercePrice(color, "unit_price"), "sales_price"), "subtotal")

\* [color.get("subtotal", 0) for color in colors if color.get("subtotal") is not None]
Subtotals(colors) ==
    LET keep == {i \in DOMAIN colors : Get(colors[i], "subtotal", JNull).t # "null"}
        kept == SelectSeqBy(colors, keep)
    IN [i \in DOMAIN kept |-> Get(kept[i], "subtotal", JNum(0))]

\* one entry of result["products"]: <<>> when dropped
CleanProduct(product) ==
    IF product.t # "dict" THEN <<>>
    ELSE LET p1 == IF "name" \in DOMAIN product.d THEN product.d
                   ELSE Put(product.d, "name", JNull)
             p2 == IF "material_code" \in DOMAIN p1 THEN p1
                   ELSE Put(p1, "material_code", JNull)
             p3 == IF "colors" \in DOMAIN p2 THEN p2 ELSE Put(p2, "colors", JList(<<>>))
         IN IF p3.colors.t = "list"
            THEN LET clean_colors == CleanColors(p3.colors.items)
                     colors == [i \in DOMAIN clean_colors |-> CoercePrices(clean_colors[i])]
                     subtotals == Subtotals(colors)
                     total_price ==
                         IF "total_price" \notin DOMAIN p3 \/ p3.total_price.t = "null"
                         THEN (IF subtotals # <<>> THEN FSum(subtotals) ELSE JNull)
                         ELSE (IF float(p3.total_price) = PyError THEN JNull
                               ELSE float(p3.total_price))
                 IN IF clean_colors # <<>>
                    THEN <<Put(Put(p3, "colors", colors), "total_price", total_price)>>
                    ELSE <<>>
            ELSE <<>>

RECURSIVE CleanProducts(_)
CleanProducts(products) ==
    IF products = <<>> THEN <<>>
    ELSE CleanProduct(products[1]) \o CleanProducts(Tail(products))

\* result["order_info"]["total_value"] = float(value), None on ValueError/TypeError;
\* total_pieces is not modelled
CleanOrderInfo(order_info) ==
    IF "total_value" \in DOMAIN order_info /\ order_info.total_value.t # "null"
    THEN Put(order_info, "total_value",
             IF float(order_info.total_value) = PyError THEN JNull
             ELSE float(order_info.total_value))
    ELSE order_info

\* the cleaner on the object json.loads returned for the first code block of
\* the answer (lines 264-270, 305-421); PyError when it raises
_extract_and_clean_json(result) ==
    IF result.t # "dict" THEN PyError
    ELSE LET products == IF "products" \in DOMAIN result.d /\ result.d.products.t = "list"
                         THEN result.d.products.items ELSE <<>>
             order_info == IF "order_info" \in DOMAIN result.d /\ result.d.order_info.t = "dict"
                           THEN result.d.order_info.d ELSE [x \in {} |-> JNull]
             cleaned == [products |-> CleanProducts(products),
                         order_info |-> CleanOrderInfo(order_info)]
         IN IF "error" \in DOMAIN result.d
            THEN [k \in {"products", "order_info", "error"} |->
                     IF k = "error" THEN result.d.error ELSE cleaned[k]]
            ELSE cleaned

\* _attempt_json_recovery: every product text the pattern finds starts with a
\* brace and is wrapped in a second pair of braces before json.loads, which
\* rejects it, so that no product is ever recovered and the result is None
_attempt_json_recovery(response_text) == JNull

\* process_page on the outcome of the oracle call: PyError when the call (or
\* loading the image) raises, else the object the answer's JSON text parses to
\* (anything that is no dict stands for a text the cleaner raises on)
process_page(response) ==
    IF response = PyError
    THEN [error |-> JStr("oracle"), products |-> <<>>]
    ELSE IF _extract_and_clean_json(response) # PyError
    THEN _extract_and_clean_json(response)
    ELSE IF _attempt_json_recovery(response) # JNull
            /\ "products" \in DOMAIN _attempt_json_recovery(response)
    THEN _attempt_json_recovery(response)
    ELSE [error |-> JStr("json"), products |-> <<>>]

----------------------------------------------------------------------------
(* Reference catalog (the entries the model's inputs can reach) *)

\* SUPPLIER_DATA entries 01, 02 and 23, in dict order
SUPPLIER_DATA == <<
    [code |-> <<"0", "1">>, nome |-> "GANT", marcacao |-> JNum(165)],
    [code |-> <<"0", "2">>, nome |-> "HUGO BOSS", marcacao |-> JNum(273)],
    [code |-> <<"2", "3">>, nome |-> "LVX", marcacao |-> JNull] >>

\* SUPPLIER_MAP.values()
SupplierNames == {SUPPLIER_DATA[i].nome : i \in DOMAIN SUPPLIER_DATA}

\* SUPPLIER_CODE_MAP[name]
SupplierCodeOf(name) ==
    JStr(SUPPLIER_DATA[CHOOSE i \in DOMAIN SUPPLIER_DATA : SUPPLIER_DATA[i].nome = name].code)

\* COLOR_MAP entries 001, 008 and 009
COLOR_MAP == <<
    [code |-> <<"0", "0", "1">>, name |-> "Branco"],
    [code |-> <<"0", "0", "8">>, name |-> "Azul"],
    [code |-> <<"0", "0", "9">>, name |-> "Laranja"] >>

InColorMap(code) == code.t = "str" /\ \E i \in DOMAIN COLOR_MAP : COLOR_MAP[i].code = code.s
ColorNameOf(code) == JStr(COLOR_MAP[CHOOSE i \in DOMAIN COLOR_MAP : COLOR_MAP[i].code = code.s].name)

\* SIZE_MAP entries S, M and L
SIZE_MAP == <<
    [size |-> "S", code |-> <<"0", "0", "2">>],
    [size |-> "M", code |-> <<"0", "0", "3">>],
    [size |-> "L", code |-> <<"0", "0", "4">>] >>

\* str(size).upper() on the size labels of the model
SizeUpper(size) ==
    CASE size.t = "null" -> "NONE"
      [] size.t = "str" /\ size.s = "s" -> "S"
      [] OTHER -> size.s

get_size_code(size) ==
    IF \E i \in DOMAIN SIZE_MAP : SIZE_MAP[i].size = SizeUpper(size)
    THEN JStr(SIZE_MAP[CHOOSE i \in DOMAIN SIZE_MAP : SIZE_MAP[i].size = SizeUpper(size)].code)
    ELSE JNull

UNIDENTIFIED_SUPPLIER == "Fornecedor não identificado"
UNIDENTIFIED_BRAND == "Marca não identificada"

\* get_supplier_code: exact catalog name, else the first catalog name that
\* contains or is contained in the argument (upper-cased), computed by the
\* source for the names of the model
get_supplier_code(name) ==
    IF name \in SupplierNames THEN SupplierCodeOf(name)
    ELSE CASE name = "" -> JStr(SUPPLIER_DATA[1].code)
           [] name = "Hugo Boss AG" -> SupplierCodeOf("HUGO BOSS")
           [] name = "Gant AB" -> SupplierCodeOf("GANT")
           [] OTHER -> JNull

get_markup(supplier_code) ==
    IF \E i \in DOMAIN SUPPLIER_DATA : SUPPLIER_DATA[i].code = supplier_code.s
    THEN SUPPLIER_DATA[CHOOSE i \in DOMAIN SUPPLIER_DATA : SUPPLIER_DATA[i].code = supplier_code.s].marcacao
    ELSE JNull

\* find_most_similar_supplier above the 0.3 threshold, computed by the source
\* for the names of the model: the catalog name, or the argument when none
FuzzySupplier(name) ==
    CASE name = "Hugo Boss AG" -> "HUGO BOSS"
      [] name = "Gant AB" -> "GANT"
      [] OTHER -> name

match_supplier_name(extracted_supplier) ==
    IF extracted_supplier = "" THEN UNIDENTIFIED_SUPPLIER
    ELSE IF extracted_supplier \in SupplierNames THEN extracted_supplier
    ELSE FuzzySupplier(extracted_supplier)

\* <<normalized_name, supplier_code>>
get_normalized_supplier(supplier_name) ==
    LET normalized_name == match_supplier_name(supplier_name)
    IN <<normalized_name,
         IF normalized_name \in SupplierNames THEN SupplierCodeOf(normalized_name)
         ELSE get_supplier_code(normalized_name)>>

DEFAULT_MARKUP == 273

----------------------------------------------------------------------------
(* determine_best_supplier and assign_supplier_to_products *)

\* candidates: <<source, candidate>> pairs in the order the code appends them
SupplierCandidates(ctx) ==
    (IF ctx.supplier # "" /\ ctx.supplier # UNIDENTIFIED_SUPPLIER
     THEN << <<"supplier_context", ctx.supplier>> >> ELSE <<>>)
    \o
    (IF ctx.brand # "" /\ ctx.brand # UNIDENTIFIED_BRAND /\ ctx.brand # ctx.supplier
     THEN << <<"brand_context", ctx.brand>> >> ELSE <<>>)

\* the score were a fuzzy match worth as much as an exact one
CandidateScoreIgnoringExactness(cand) ==
    LET matched_supplier == match_supplier_name(cand[2])
        supplier_code == get_supplier_code(matched_supplier)
    IN IF Truthy(supplier_code) /\ matched_supplier \in SupplierNames
       THEN 8 + (IF cand[1] = "supplier_context" THEN 1 ELSE 0)
       ELSE 0

\* score of one candidate in tenths; 0 when it resolves to no catalog supplier
CandidateScore(cand) ==
    LET matched_supplier == match_supplier_name(cand[2])
        supplier_code == get_supplier_code(matched_supplier)
    IN IF Truthy(supplier_code) /\ matched_supplier \in SupplierNames
       THEN (IF matched_supplier = cand[2] THEN 10 ELSE 8)
            + (IF cand[1] = "supplier_context" THEN 1 ELSE 0)
       ELSE 0

RECURSIVE BestCandidate(_, _, _)
\* the loop over candidates: best is <<best_score, best_match>>
BestCandidate(cands, i, best) ==
    IF i > Len(cands) THEN best
    ELSE LET score == CandidateScore(cands[i])
         IN BestCandidate(cands, i + 1,
                IF score > best[1] THEN <<score, match_supplier_name(cands[i][2])>> ELSE best)

\* [name, code, markup]
determine_best_supplier(ctx) ==
    LET candidates == SupplierCandidates(ctx)
        best == BestCandidate(candidates, 1, <<0, "">>)
    IN IF candidates = <<>>
       THEN [name |-> UNIDENTIFIED_SUPPLIER, code |-> JNull, markup |-> JNull]
       ELSE IF best[1] > 0
       THEN LET code == get_supplier_code(best[2])
                markup == IF Truthy(code) THEN get_markup(code) ELSE JNull
            IN [name |-> best[2], code |-> code,
                markup |-> IF Truthy(markup) THEN markup ELSE JNum(DEFAULT_MARKUP)]
       ELSE [name |-> candidates[1][2], code |-> JNull, markup |-> JNum(DEFAULT_MARKUP)]

\* round(x, 2) of a product of cents and hundredths
RoundMarkup(x) ==
    IF x.t # "num" THEN x
    ELSE LET q == x.n \div 100
             r == x.n % 100
         IN JNum(IF r > 50 \/ (r = 50 /\ q % 2 = 1) THEN q + 1 ELSE q)

\* sum(size.get("quantity", 0) for size in sizes)
TotalQuantity(sizes) == FSum([i \in DOMAIN sizes |-> Get(sizes[i], "quantity", JNum(0))])

\* the body of the loop over colors, in its three steps
\* lines 95-98: the sales price of a color that has none; PyError for the
\* TypeError of unit_price * None
AssignSalesPrice(color, markup) ==
    IF ~Truthy(Get(color, "sales_price", JNull)) /\ Truthy(Get(color, "unit_price", JNull))
    THEN (IF markup.t = "null" THEN PyError
          ELSE Put(color, "sales_price", RoundMarkup(FMul(color.unit_price, markup))))
    ELSE color

\* lines 100-105: the subtotal of a color that has a unit price and none yet
AssignSubtotal(color, total_quantity) ==
    IF color = PyError THEN PyError
    ELSE IF Truthy(Get(color, "unit_price", JNull)) /\ color.sizes # <<>>
            /\ ~Truthy(Get(color, "subtotal", JNull)) /\ GtZero(total_quantity)
    THEN Put(color, "subtotal", FMul(color.unit_price, total_quantity))
    ELSE color

AssignColor(color, supplier_name, markup) ==
    AssignSubtotal(AssignSalesPrice(Put(color, "supplier", JStr(supplier_name)), markup),
                   TotalQuantity(color.sizes))

AssignProduct(product, supplier_name, markup) ==
    LET colors == [i \in DOMAIN product.colors |-> AssignColor(product.colors[i], supplier_name, markup)]
        refs == [i \in DOMAIN product.references |->
                    Put(product.references[i], "supplier", JStr(supplier_name))]
    IN IF \E i \in DOMAIN colors : colors[i] = PyError THEN PyError
       ELSE Put(Put(Put(product, "supplier", JStr(supplier_name)), "colors", colors),
                "references", refs)

assign_supplier_to_products(products, supplier_name, markup) ==
    LET out == [i \in DOMAIN products |-> AssignProduct(products[i], supplier_name, markup)]
    IN IF \E i \in DOMAIN out : out[i] = PyError THEN Raised ELSE out

----------------------------------------------------------------------------
(* ColorMappingAgent *)

\* str.lower() and str.strip() of the names the model uses
lower(name) ==
    CASE name = "Azul" -> "azul"
      [] name = "AZUL" -> "azul"
      [] name = "Navy" -> "navy"
      [] name = "Orange" -> "orange"
      [] name = "Laranja" -> "laranja"
      [] name = "Branco" -> "branco"
      [] name = "Zzz" -> "zzz"
      [] OTHER -> name

strip(name) == IF name = " " THEN "" ELSE name

\* _get_fallback_mapping, computed by the source for the color names of the
\* model: "navy" and "azul" are keys of the table, no key contains or is
\* contained in "orange", "laranja", "branco" or "zzz"
_get_fallback_mapping(color_name) ==
    CASE strip(lower(color_name)) = "navy" ->
            [code |-> JStr(<<"0", "0", "8">>), name |-> JStr("Azul")]
      [] strip(lower(color_name)) = "azul" ->
            [code |-> JStr(<<"0", "0", "8">>), name |-> JStr("Azul")]
      [] OTHER -> JNull

\* a dict parsed from the oracle's answer is a plain record; any other parsed
\* value keeps its tag
IsMapping(answer) == "t" \notin DOMAIN answer

\* _validate_mapping returns True for the parsed answer: both keys, a catalog
\* code, a name that has lower(); it returns False or raises otherwise, and
\* the caller takes the fallback in both cases
_validate_mapping(mapping_info) ==
    /\ IsMapping(mapping_info)
    /\ "code" \in DOMAIN mapping_info
    /\ "name" \in DOMAIN mapping_info
    /\ InColorMap(mapping_info.code)
    /\ mapping_info.name.t = "str"

\* lines 334-337: the catalog name replaces a name that differs from it in
\* more than case
ValidatedName(mapping_info) ==
    IF lower(ColorNameOf(mapping_info.code).s) # lower(mapping_info.name.s)
    THEN ColorNameOf(mapping_info.code)
    ELSE mapping_info.name

\* _map_color_name_with_ai.  answer is what _extract_json_from_response made
\* of the oracle's text: a dict, another JSON value, JNull for text without
\* JSON, or PyError when the call raises (caught at line 215).  The result is
\* a mapping, JNull, or PyError when color_name has no strip().
_map_color_name_with_ai(color_name, answer) ==
    IF ~Truthy(color_name) THEN JNull
    ELSE IF color_name.t # "str" THEN PyError
    ELSE IF strip(color_name.s) = "" THEN JNull
    ELSE IF answer # PyError /\ answer # JNull /\ _validate_mapping(answer)
    THEN Put(answer, "name", ValidatedName(answer))
    ELSE _get_fallback_mapping(color_name.s)

\* lines 113-121 of _map_single_color: the color's own code as a fallback;
\* PyError when the code is unhashable
MapByCode(color, original_code) ==
    IF ~Truthy(original_code) THEN color
    ELSE IF original_code.t \in {"list", "dict"} THEN PyError
    ELSE IF InColorMap(original_code)
    THEN Put(color, "color_name", ColorNameOf(original_code))
    ELSE color

\* lines 88-111 of _map_single_color on the outcome of _map_color_name_with_ai
MapByName(color, mapped_info) ==
    IF mapped_info = PyError THEN PyError
    ELSE IF mapped_info # JNull
    THEN Put(Put(color, "color_code", mapped_info.code), "color_name", mapped_info.name)
    ELSE MapByCode(color, Get(color, "color_code", JStr(<<>>)))

_map_single_color(color, answer) ==
    MapByName(color,
              IF Truthy(Get(color, "color_name", JStr("")))
              THEN _map_color_name_with_ai(Get(color, "color_name", JStr("")), answer)
              ELSE JNull)

\* the colors the agent asks the oracle about: those with a name that is
\* not blank
Named(color) ==
    /\ Truthy(Get(color, "color_name", JStr("")))
    /\ Get(color, "color_name", JStr("")).t = "str"
    /\ strip(Get(color, "color_name", JStr("")).s) # ""

RECURSIVE CountNamed(_)
CountNamed(colors) ==
    IF colors = <<>> THEN 0
    ELSE (IF Named(colors[1]) THEN 1 ELSE 0) + CountNamed(Tail(colors))

RECURSIVE CallsBefore(_, _)
\* number of oracle calls made for products[1..n]
CallsBefore(products, n) ==
    IF n = 0 THEN 0 ELSE CallsBefore(products, n - 1) + CountNamed(products[n].colors)

\* the loops of map_product_colors (lines 41-51); answers[k] is the oracle's
\* answer to the k-th call
MappedColors(products, answers) ==
    [i \in DOMAIN products |->
        [j \in DOMAIN products[i].colors |->
            _map_single_color(
                products[i].colors[j],
                IF Named(products[i].colors[j])
                THEN answers[CallsBefore(products, i - 1)
                             + CountNamed(SubSeq(products[i].colors, 1, j))]
                ELSE JNull)]]

\* map_product_colors: Raised when _map_single_color raises for a color
WithMappedColors(products, mapped) ==
    IF \E i \in DOMAIN mapped : \E j \in DOMAIN mapped[i] : mapped[i][j] = PyError
    THEN Raised
    ELSE [i \in DOMAIN products |-> Put(products[i], "colors", mapped[i])]

map_product_colors(products, answers) ==
    WithMappedColors(products, MappedColors(products, answers))

----------------------------------------------------------------------------
(* References and barcodes *)

\* str(x) inside an f-string
RECURSIVE Flat(_)
Flat(cs) == IF cs = <<>> THEN "" ELSE cs[1] \o Flat(Tail(cs))

\* str(x) of a label (a string or an integer) and of a code (characters);
\* str(None) is "None"
StrOfLabel(x) ==
    IF x.t = "null" THEN "None" ELSE IF x.t = "num" THEN ToString(x.n) ELSE x.s
StrOfCode(x) == IF x.t = "null" THEN "None" ELSE Flat(x.s)

RECURSIVE SizePairs(_, _, _)
\* <<color index, size index>> of every size with not (quantity <= 0), colors in
\* order, then sizes in order
SizePairs(colors, ci, si) ==
    IF ci > Len(colors) THEN <<>>
    ELSE IF si > Len(colors[ci].sizes) THEN SizePairs(colors, ci + 1, 1)
    ELSE IF LeqZero(Get(colors[ci].sizes[si], "quantity", JNum(0)))
         THEN SizePairs(colors, ci, si + 1)
         ELSE << <<ci, si>> >> \o SizePairs(colors, ci, si + 1)

\* the references _post_process_products builds for a first-seen product
ProductReferences(product) ==
    LET pairs == SizePairs(product.colors, 1, 1)
    IN [counter \in DOMAIN pairs |->
          LET color == product.colors[pairs[counter][1]]
              size_info == color.sizes[pairs[counter][2]]
          IN [reference |-> JStr(StrOfLabel(product.material_code) \o "." \o ToString(counter)),
              counter |-> JNum(counter),
              color_code |-> Get(color, "color_code", JStr(<<>>)),
              color_name |-> Get(color, "color_name", JStr("")),
              size |-> Get(size_info, "size", JStr("")),
              quantity |-> Get(size_info, "quantity", JNum(0)),
              description |-> JStr(StrOfLabel(product.name) \o "["
                                   \o StrOfCode(Get(color, "color_code", JStr(<<>>))) \o "/"
                                   \o StrOfLabel(Get(size_info, "size", JStr(""))) \o "]")]]

\* generate_barcode with the default season code.  A supplier that is a
\* non-zero number has no strip(): the AttributeError is caught and the dummy
\* code of the except branch is returned.  None and "" are the falsy supplier.
generate_barcode(supplier, product_counter, color_code, size) ==
    IF supplier.t = "num" /\ supplier.n # 0
    THEN <<"0", "0", "0", "1", "1", "0", "0">> \o zfill(Dec(product_counter), 3)
         \o <<"0", "0", "1", "0", "0", "1">>
    ELSE LET found == get_normalized_supplier(IF supplier.t = "str" THEN supplier.s ELSE "")[2]
             supplier_code == zfill(IF Truthy(found) THEN found.s ELSE <<"0", "0">>, 2)
             counter_code == zfill(Dec(100 + (IF product_counter < 899 THEN product_counter ELSE 899)), 3)
             color == IF Truthy(color_code) THEN zfill(color_code.s, 3) ELSE <<"0", "0", "1">>
             size_found == get_size_code(size)
             size_code == zfill(IF Truthy(size_found) THEN size_found.s ELSE <<"0", "0", "1">>, 3)
         IN <<"0", "0">> \o supplier_code \o counter_code \o color \o size_code

\* one reference line of add_barcodes_to_products: pair is <<color index, size
\* index>>, counter the product's counter after its increment
BarcodeReference(product, pair, counter) ==
    [reference |-> JStr(StrOfLabel(Get(product, "material_code", JStr(""))) \o "."
                        \o ToString(counter)),
     counter |-> JNum(counter),
     color_code |-> Get(product.colors[pair[1]], "color_code", JStr(<<>>)),
     color_name |-> Get(product.colors[pair[1]], "color_name", JStr("")),
     size |-> Get(product.colors[pair[1]].sizes[pair[2]], "size", JStr("")),
     quantity |-> Get(product.colors[pair[1]].sizes[pair[2]], "quantity", JNum(0)),
     barcode |-> JStr(generate_barcode(
                          Get(product.colors[pair[1]], "supplier", Get(product, "brand", JStr(""))),
                          counter,
                          Get(product.colors[pair[1]], "color_code", JStr(<<>>)),
                          Get(product.colors[pair[1]].sizes[pair[2]], "size", JStr(""))))]

\* the counter is read before it is incremented
BarcodeReferencesCounterReadEarly(product) ==
    [k \in DOMAIN SizePairs(product.colors, 1, 1) |->
        BarcodeReference(product, SizePairs(product.colors, 1, 1)[k], k - 1)]

\* the references add_barcodes_to_products puts in place of product["references"]
BarcodeReferences(product) ==
    [k \in DOMAIN SizePairs(product.colors, 1, 1) |->
        BarcodeReference(product, SizePairs(product.colors, 1, 1)[k], k)]

add_barcodes_to_products(products) ==
    [i \in DOMAIN products |-> Put(products[i], "references", BarcodeReferences(products[i]))]

----------------------------------------------------------------------------
(* Strings *)

\* sub in s
Contains(s, sub) ==
    sub = "" \/ \E i \in 1..(Len(s) - Len(sub) + 1) : SubSeq(s, i, i + Len(sub) - 1) = sub

\* c.upper() for one character
UpperChar(c) ==
    CASE c = "a" -> "A"
      [] c = "b" -> "B"
      [] c = "c" -> "C"
      [] c = "d" -> "D"
      [] c = "e" -> "E"
      [] c = "f" -> "F"
      [] c = "g" -> "G"
      [] c = "h" -> "H"
      [] c = "i" -> "I"
      [] c = "j" -> "J"
      [] c = "k" -> "K"
      [] c = "l" -> "L"
      [] c = "m" -> "M"
      [] c = "n" -> "N"
      [] c = "o" -> "O"
      [] c = "p" -> "P"
      [] c = "q" -> "Q"
      [] c = "r" -> "R"
      [] c = "s" -> "S"
      [] c = "t" -> "T"
      [] c = "u" -> "U"
      [] c = "v" -> "V"
      [] c = "w" -> "W"
      [] c = "x" -> "X"
      [] c = "y" -> "Y"
      [] c = "z" -> "Z"
      [] c = "ç" -> "Ç"
      [] c = "ã" -> "Ã"
      [] c = "õ" -> "Õ"
      [] c = "ó" -> "Ó"
      [] OTHER -> c

RECURSIVE upper(_)
\* str.upper()
upper(s) ==
    IF s = "" THEN "" ELSE UpperChar(SubSeq(s, 1, 1)) \o upper(SubSeq(s, 2, Len(s)))

\* ord(c) for the characters of CATEGORIES and of material codes
Ord(c) ==
    CASE c = " " -> 32
      [] c = "-" -> 45
      [] c = "0" -> 48
      [] c = "1" -> 49
      [] c = "2" -> 50
      [] c = "3" -> 51
      [] c = "4" -> 52
      [] c = "5" -> 53
      [] c = "6" -> 54
      [] c = "7" -> 55
      [] c = "8" -> 56
      [] c = "9" -> 57
      [] c = "A" -> 65
      [] c = "B" -> 66
      [] c = "C" -> 67
      [] c = "D" -> 68
      [] c = "E" -> 69
      [] c = "F" -> 70
      [] c = "H" -> 72
      [] c = "I" -> 73
      [] c = "J" -> 74
      [] c = "K" -> 75
      [] c = "L" -> 76
      [] c = "M" -> 77
      [] c = "N" -> 78
      [] c = "O" -> 79
      [] c = "P" -> 80
      [] c = "R" -> 82
      [] c = "S" -> 83
      [] c = "T" -> 84
      [] c = "U" -> 85
      [] c = "V" -> 86
      [] c = "W" -> 87
      [] c = "Z" -> 90
      [] c = "Ã" -> 195
      [] c = "Ç" -> 199
      [] c = "Ó" -> 211
      [] c = "Õ" -> 213
      [] OTHER -> 0

RECURSIVE StrLess(_, _)
\* a < b on strings
StrLess(a, b) ==
    IF b = "" THEN FALSE
    ELSE IF a = "" THEN TRUE
    ELSE IF SubSeq(a, 1, 1) # SubSeq(b, 1, 1)
    THEN Ord(SubSeq(a, 1, 1)) < Ord(SubSeq(b, 1, 1))
    ELSE StrLess(SubSeq(a, 2, Len(a)), SubSeq(b, 2, Len(b)))

----------------------------------------------------------------------------
(* Categories: reference_data.get_category and category_mapper.map_category *)

CATEGORIES == <<
    "CAMISAS", "CASACOS", "VESTIDOS", "BLUSAS", "CALÇAS", "CALÇÃO", "MALHAS", "SAIAS",
    "T-SHIRTS", "POLOS", "JEANS", "SWEATSHIRTS", "BLAZERS E FATOS", "BLUSÕES E PARKAS",
    "CALÇADO", "TOP", "ACESSÓRIOS" >>

InCategories(category) == \E i \in DOMAIN CATEGORIES : CATEGORIES[i] = category

\* the first entry of CATEGORIES that contains the text or is contained in
\* it: its index, 0 when there is none
PartialCategory(category_upper) ==
    IF \E i \in DOMAIN CATEGORIES :
          Contains(category_upper, CATEGORIES[i]) \/ Contains(CATEGORIES[i], category_upper)
    THEN CHOOSE i \in DOMAIN CATEGORIES :
            /\ Contains(category_upper, CATEGORIES[i]) \/ Contains(CATEGORIES[i], category_upper)
            /\ \A k \in 1..(i - 1) :
                  ~(Contains(category_upper, CATEGORIES[k]) \/ Contains(CATEGORIES[k], category_upper))
    ELSE 0

\* get_category: the category, or JNull
get_category(category_name) ==
    IF InCategories(upper(category_name)) THEN JStr(upper(category_name))
    ELSE IF PartialCategory(upper(category_name)) # 0
    THEN JStr(CATEGORIES[PartialCategory(upper(category_name))])
    ELSE JNull

ENGLISH_TO_PORTUGUESE == <<
    <<"SHIRT", "CAMISAS">>, <<"SHIRTS", "CAMISAS">>, <<"CASUAL SHIRT", "CAMISAS">>,
    <<"DRESS SHIRT", "CAMISAS">>, <<"FORMAL SHIRT", "CAMISAS">>, <<"COAT", "CASACOS">>,
    <<"COATS", "CASACOS">>, <<"JACKET", "CASACOS">>, <<"JACKETS", "CASACOS">>,
    <<"OVERCOAT", "CASACOS">>, <<"RAINCOAT", "CASACOS">>,
    <<"PARKA", "BLUSÕES E PARKAS">>, <<"PARKAS", "BLUSÕES E PARKAS">>,
    <<"WIND JACKET", "BLUSÕES E PARKAS">>, <<"WINDBREAKER", "BLUSÕES E PARKAS">>,
    <<"DRESS", "VESTIDOS">>, <<"DRESSES", "VESTIDOS">>,
    <<"EVENING DRESS", "VESTIDOS">>, <<"COCKTAIL DRESS", "VESTIDOS">>,
    <<"BLOUSE", "BLUSAS">>, <<"BLOUSES", "BLUSAS">>, <<"TOP", "BLUSAS">>,
    <<"TOPS", "BLUSAS">>, <<"PANTS", "CALÇAS">>, <<"TROUSERS", "CALÇAS">>,
    <<"CHINOS", "CALÇAS">>, <<"SLACKS", "CALÇAS">>, <<"KNITWEAR", "MALHAS">>,
    <<"KNIT", "MALHAS">>, <<"PULLOVER", "MALHAS">>, <<"SWEATER", "MALHAS">>,
    <<"CARDIGAN", "MALHAS">>, <<"SKIRT", "SAIAS">>, <<"SKIRTS", "SAIAS">>,
    <<"MIDI SKIRT", "SAIAS">>, <<"MAXI SKIRT", "SAIAS">>, <<"T-SHIRT", "T-SHIRTS">>,
    <<"T SHIRT", "T-SHIRTS">>, <<"TEE", "T-SHIRTS">>, <<"TSHIRT", "T-SHIRTS">>,
    <<"POLO", "POLOS">>, <<"POLO SHIRT", "POLOS">>, <<"JERSEY", "POLOS">>,
    <<"JERSEYS", "POLOS">>, <<"JEAN", "JEANS">>, <<"DENIM", "JEANS">>,
    <<"DENIM PANTS", "JEANS">>, <<"JEANS PANTS", "JEANS">>,
    <<"SWEATSHIRT", "SWEATSHIRTS">>, <<"HOODIE", "SWEATSHIRTS">>,
    <<"HOODED SWEAT", "SWEATSHIRTS">>, <<"SWEAT", "SWEATSHIRTS">>,
    <<"BLAZER", "BLAZERS E FATOS">>, <<"SUIT", "BLAZERS E FATOS">>,
    <<"FORMAL SUIT", "BLAZERS E FATOS">>, <<"TUXEDO", "BLAZERS E FATOS">>,
    <<"SHOES", "CALÇADO">>, <<"FOOTWEAR", "CALÇADO">>, <<"BOOTS", "CALÇADO">>,
    <<"SNEAKERS", "CALÇADO">>, <<"LOAFERS", "CALÇADO">>,
    <<"ACCESSORIES", "ACESSÓRIOS">>, <<"BELT", "ACESSÓRIOS">>, <<"TIE", "ACESSÓRIOS">>,
    <<"SCARF", "ACESSÓRIOS">>, <<"HAT", "ACESSÓRIOS">>, <<"BAG", "ACESSÓRIOS">>,
    <<"WALLET", "ACESSÓRIOS">>, <<"JEWELRY", "ACESSÓRIOS">>, <<"WATCH", "ACESSÓRIOS">>,
    <<"SUNGLASSES", "ACESSÓRIOS">>, <<"ACCESSORY", "ACESSÓRIOS">> >>

BOSS_POLO_PATTERNS == <<
    "PADDY", "PAUL", "POLO", "JERSEY", "PIMA", "PARLAY", "PALLAS", "PROUT", "PLAYER",
    "PERCY", "PAULE", "PIRO", "PASSERBY", "PACELLO", "PHILLIPSON", "PLISY", "PRIDE",
    "PENROSE", "PALLAS" >>

\* the keywords of map_category, in the order of the dict
CategoryKeywords == <<
    <<"SHIRT", "CAMISAS">>, <<"COAT", "CASACOS">>, <<"JACKET", "CASACOS">>,
    <<"DRESS", "VESTIDOS">>, <<"BLOUSE", "BLUSAS">>, <<"TOP", "BLUSAS">>,
    <<"PANT", "CALÇAS">>, <<"TROUSER", "CALÇAS">>, <<"KNIT", "MALHAS">>,
    <<"SWEATER", "MALHAS">>, <<"SKIRT", "SAIAS">>, <<"TEE", "T-SHIRTS">>,
    <<"POLO", "POLOS">>, <<"JEAN", "JEANS">>, <<"DENIM", "JEANS">>,
    <<"SWEAT", "SWEATSHIRTS">>, <<"HOODIE", "SWEATSHIRTS">>,
    <<"BLAZER", "BLAZERS E FATOS">>, <<"SUIT", "BLAZERS E FATOS">>,
    <<"SHOE", "CALÇADO">>, <<"BOOT", "CALÇADO">>, <<"SNEAKER", "CALÇADO">> >>

\* the first pair of an ordered dict whose key is the text: its index, 0
\* when there is none
FirstExact(pairs, text) ==
    IF \E i \in DOMAIN pairs : pairs[i][1] = text
    THEN CHOOSE i \in DOMAIN pairs :
            pairs[i][1] = text /\ \A k \in 1..(i - 1) : pairs[k][1] # text
    ELSE 0

\* the first pair whose key is contained in the text
FirstWithin(pairs, text) ==
    IF \E i \in DOMAIN pairs : Contains(text, pairs[i][1])
    THEN CHOOSE i \in DOMAIN pairs :
            Contains(text, pairs[i][1]) /\ \A k \in 1..(i - 1) : ~Contains(text, pairs[k][1])
    ELSE 0

\* the first pair whose key is contained in the text or contains it
FirstEitherWay(pairs, text) ==
    IF \E i \in DOMAIN pairs : Contains(text, pairs[i][1]) \/ Contains(pairs[i][1], text)
    THEN CHOOSE i \in DOMAIN pairs :
            /\ Contains(text, pairs[i][1]) \/ Contains(pairs[i][1], text)
            /\ \A k \in 1..(i - 1) :
                  ~(Contains(text, pairs[k][1]) \/ Contains(pairs[k][1], text))
    ELSE 0

\* difflib's find_longest_match without junk: the length of the longest
\* common block of a and b
LongestLen(a, b) ==
    LET lens == {k \in 0..Len(a) :
                    k = 0 \/ \E i \in 1..(Len(a) - k + 1) : Contains(b, SubSeq(a, i, i + k - 1))}
    IN CHOOSE k \in lens : \A m \in lens : m <= k

\* where that block starts: earliest in a, then earliest in b
LongestAt(a, b, k) ==
    LET i == CHOOSE i \in 1..(Len(a) - k + 1) :
                /\ Contains(b, SubSeq(a, i, i + k - 1))
                /\ \A m \in 1..(i - 1) : ~Contains(b, SubSeq(a, m, m + k - 1))
        j == CHOOSE j \in 1..(Len(b) - k + 1) :
                /\ SubSeq(b, j, j + k - 1) = SubSeq(a, i, i + k - 1)
                /\ \A m \in 1..(j - 1) : SubSeq(b, m, m + k - 1) # SubSeq(a, i, i + k - 1)
    IN <<i, j>>

RECURSIVE Matches(_, _)
\* SequenceMatcher(None, a, b): the total size of the matching blocks
Matches(a, b) ==
    IF a = "" \/ b = "" \/ LongestLen(a, b) = 0 THEN 0
    ELSE LET k == LongestLen(a, b)
             at == LongestAt(a, b, k)
         IN k + Matches(SubSeq(a, 1, at[1] - 1), SubSeq(b, 1, at[2] - 1))
              + Matches(SubSeq(a, at[1] + k, Len(a)), SubSeq(b, at[2] + k, Len(b)))

\* ratio() >= 0.6, with ratio() = 2.0 * matches / (len(a) + len(b))
CloseEnough(a, b) == Len(a) + Len(b) > 0 /\ 20 * Matches(a, b) >= 6 * (Len(a) + Len(b))

\* (ratio of x, x) < (ratio of y, y), the order heapq.nlargest uses
ScoredLess(word, x, y) ==
    LET mx == Matches(x, word) * (Len(y) + Len(word))
        my == Matches(y, word) * (Len(x) + Len(word))
    IN mx < my \/ (mx = my /\ StrLess(x, y))

\* get_close_matches(word, CATEGORIES, n=1, cutoff=0.6): the index of the
\* match, 0 when there is none
CloseCategory(word) ==
    LET close == {i \in DOMAIN CATEGORIES : CloseEnough(CATEGORIES[i], word)}
    IN IF close = {} THEN 0
       ELSE CHOOSE i \in close :
               \A k \in close \ {i} : ScoredLess(word, CATEGORIES[k], CATEGORIES[i])

DEFAULT_CATEGORY == "ACESSÓRIOS"

get_best_category_match(category) ==
    IF category = "" THEN DEFAULT_CATEGORY
    ELSE IF CloseCategory(upper(category)) # 0 THEN CATEGORIES[CloseCategory(upper(category))]
    ELSE DEFAULT_CATEGORY

\* str.strip() of the text of a category
StripText(s) ==
    LET keep == {i \in 1..Len(s) : SubSeq(s, i, i) # " "}
    IN IF keep = {} THEN ""
       ELSE SubSeq(s, CHOOSE i \in keep : \A k \in keep : i <= k,
                      CHOOSE i \in keep : \A k \in keep : k <= i)

\* step 4 of map_category: the special case of HUGO BOSS polos
IsBossPolo(product_name, brand) ==
    /\ Truthy(product_name) /\ Truthy(brand)
    /\ Contains(upper(brand.s), "HUGO BOSS") \/ Contains(upper(brand.s), "BOSS")
    /\ \/ \E i \in DOMAIN BOSS_POLO_PATTERNS :
             Contains(upper(product_name.s), BOSS_POLO_PATTERNS[i])
       \/ \E word \in {"POLO", "JERSEY", "KNIT SHIRT"} : Contains(upper(product_name.s), word)

\* steps 5 to 8 of map_category
TranslateCategory(category, category_upper) ==
    IF FirstExact(ENGLISH_TO_PORTUGUESE, category_upper) # 0
    THEN ENGLISH_TO_PORTUGUESE[FirstExact(ENGLISH_TO_PORTUGUESE, category_upper)][2]
    ELSE IF FirstEitherWay(ENGLISH_TO_PORTUGUESE, category_upper) # 0
    THEN ENGLISH_TO_PORTUGUESE[FirstEitherWay(ENGLISH_TO_PORTUGUESE, category_upper)][2]
    ELSE IF FirstWithin(CategoryKeywords, category_upper) # 0
    THEN CategoryKeywords[FirstWithin(CategoryKeywords, category_upper)][2]
    ELSE get_best_category_match(category)

\* the steps of map_category one by one, 1 (exact catalog match) to 7 (closest
\* match or default): the answer of the step, "" when it does not match
CategoryRule(k, category, product_name, brand) ==
    CASE k = 1 -> IF InCategories(StripText(upper(category)))
                  THEN StripText(upper(category)) ELSE ""
      [] k = 2 -> IF get_category(category) # JNull THEN get_category(category).s ELSE ""
      [] k = 3 -> IF IsBossPolo(product_name, brand) THEN "POLOS" ELSE ""
      [] k = 4 -> IF FirstExact(ENGLISH_TO_PORTUGUESE, StripText(upper(category))) # 0
                  THEN ENGLISH_TO_PORTUGUESE[
                           FirstExact(ENGLISH_TO_PORTUGUESE, StripText(upper(category)))][2]
                  ELSE ""
      [] k = 5 -> IF FirstEitherWay(ENGLISH_TO_PORTUGUESE, StripText(upper(category))) # 0
                  THEN ENGLISH_TO_PORTUGUESE[
                           FirstEitherWay(ENGLISH_TO_PORTUGUESE, StripText(upper(category)))][2]
                  ELSE ""
      [] k = 6 -> IF FirstWithin(CategoryKeywords, StripText(upper(category))) # 0
                  THEN CategoryKeywords[
                           FirstWithin(CategoryKeywords, StripText(upper(category)))][2]
                  ELSE ""
      [] OTHER -> get_best_category_match(category)

\* map_category were the translation table consulted before the special case
\* of HUGO BOSS polos
MapCategoryTextTranslatingFirst(category, product_name, brand) ==
    IF InCategories(StripText(upper(category))) THEN StripText(upper(category))
    ELSE IF get_category(category) # JNull THEN get_category(category).s
    ELSE IF FirstExact(ENGLISH_TO_PORTUGUESE, StripText(upper(category))) # 0
    THEN ENGLISH_TO_PORTUGUESE[FirstExact(ENGLISH_TO_PORTUGUESE, StripText(upper(category)))][2]
    ELSE IF IsBossPolo(product_name, brand) THEN "POLOS"
    ELSE TranslateCategory(category, StripText(upper(category)))

\* steps 1 to 4 of map_category on the text of the category
MapCategoryText(category, product_name, brand) ==
    IF InCategories(StripText(upper(category))) THEN StripText(upper(category))
    ELSE IF get_category(category) # JNull THEN get_category(category).s
    ELSE IF IsBossPolo(product_name, brand) THEN "POLOS"
    ELSE TranslateCategory(category, StripText(upper(category)))

\* map_category for a category, product name and brand that are strings or
\* None: the name of the category
map_category(category, product_name, brand) ==
    JStr(MapCategoryText(IF Truthy(category) THEN category.s ELSE "", product_name, brand))

----------------------------------------------------------------------------
(* GeminiExtractor._post_process_products *)

\* the name cleaning of lines 311-321, computed by the source for the product
\* names of the model; re.match raises TypeError on None
CleanName(name) ==
    CASE name.t = "null" -> PyError
      [] name.s = "Polo 12" -> JStr("Polo")
      [] OTHER -> name

\* the normalisation were it to keep a category it cannot place
NormalizeCategoryTextKeepingUnknown(category_upper) ==
    IF \E term \in {"POLO", "POLOSHIRT"} : Contains(category_upper, term) THEN "POLOS"
    ELSE IF \E term \in {"SWEATER", "SWEAT", "MALHA", "JERSEY"} : Contains(category_upper, term)
    THEN "MALHAS"
    ELSE IF PartialCategory(category_upper) # 0 THEN CATEGORIES[PartialCategory(category_upper)]
    ELSE category_upper

\* the category normalisation of lines 334-352 on category_upper
NormalizeCategoryText(category_upper) ==
    IF \E term \in {"POLO", "POLOSHIRT"} : Contains(category_upper, term) THEN "POLOS"
    ELSE IF \E term \in {"SWEATER", "SWEAT", "MALHA", "JERSEY"} : Contains(category_upper, term)
    THEN "MALHAS"
    ELSE IF PartialCategory(category_upper) # 0 THEN CATEGORIES[PartialCategory(category_upper)]
    ELSE DEFAULT_CATEGORY

\* lines 334-355: PyError when the declared category has no upper()
NormalizeCategory(original_category) ==
    IF ~Truthy(original_category) THEN JStr(NormalizeCategoryText(""))
    ELSE IF original_category.t # "str" THEN PyError
    ELSE JStr(NormalizeCategoryText(upper(original_category.s)))

has_valid_colors(product) ==
    \E i \in DOMAIN product.colors : Len(product.colors[i].sizes) > 0

RECURSIVE MergeColors(_, _)
\* appends the colors whose color_code is truthy and not yet in existing
MergeColors(existing, colors) ==
    IF colors = <<>> THEN existing
    ELSE LET color_code == Get(colors[1], "color_code", JNull)
             existing_color_codes == {Get(existing[i], "color_code", JNull) : i \in DOMAIN existing}
         IN IF Truthy(color_code) /\ color_code \notin existing_color_codes
            THEN MergeColors(Append(existing, colors[1]), Tail(colors))
            ELSE MergeColors(existing, Tail(colors))

\* the merge of a later fragment into the product already processed
MergeInto(existing_product, product) ==
    LET colors == MergeColors(existing_product.colors, product.colors)
        subtotals == Subtotals(colors)
    IN Put(Put(existing_product, "colors", colors),
           "total_price", IF subtotals # <<>> THEN FSum(subtotals) ELSE JNull)

RECURSIVE ProcessProducts(_, _)
\* the loop over products (ETAPA 2); processed is processed_products so far
ProcessProducts(products, processed) ==
    IF products = <<>> \/ HasRaised(processed) THEN processed
    ELSE LET product == products[1]
             material_code == Get(product, "material_code", JNull)
         IN IF ~Truthy(material_code) THEN ProcessProducts(Tail(products), processed)
            ELSE IF material_code.t \in {"list", "dict"} /\ has_valid_colors(product)
            THEN Raised    \* an unhashable material_code in seen_material_codes
            ELSE IF CleanName(Get(product, "name", JStr(""))) = PyError THEN Raised
            ELSE LET named == Put(product, "name", CleanName(Get(product, "name", JStr(""))))
                 IN IF ~has_valid_colors(named) THEN ProcessProducts(Tail(products), processed)
                    ELSE IF NormalizeCategory(Get(named, "category", JStr(""))) = PyError
                    THEN Raised
                    ELSE LET p == Put(named, "category",
                                      NormalizeCategory(Get(named, "category", JStr(""))))
                         IN IF \E i \in DOMAIN processed : processed[i].material_code = material_code
                            THEN LET k == CHOOSE i \in DOMAIN processed :
                                              processed[i].material_code = material_code
                                 IN ProcessProducts(Tail(products),
                                        [processed EXCEPT ![k] = MergeInto(processed[k], p)])
                            ELSE ProcessProducts(Tail(products),
                                     Append(processed, Put(p, "references", ProductReferences(p))))

\* ETAPA 3.5: brand, supplier of the product, its colors and its references
ForceFields(product, original_brand, supplier_name) ==
    LET p1 == IF original_brand # "" /\ original_brand # UNIDENTIFIED_BRAND
              THEN Put(product, "brand", JStr(original_brand)) ELSE product
        colors == [i \in DOMAIN p1.colors |-> Put(p1.colors[i], "supplier", JStr(supplier_name))]
        refs == [i \in DOMAIN p1.references |->
                    Put(p1.references[i], "supplier", JStr(supplier_name))]
    IN Put(Put(Put(p1, "supplier", JStr(supplier_name)), "colors", colors), "references", refs)

\* a < b on two sort keys of one type: strings by code point, integers by value
KeyLess(a, b) == IF a.t = "str" THEN StrLess(a.s, b.s) ELSE a.n < b.n

\* the sort compares a str key with a key that is none: TypeError
MixedKeys(products) ==
    \E i, j \in DOMAIN products :
        (products[i].material_code.t = "str") # (products[j].material_code.t = "str")

\* the products left in the order _post_process_products appended them
SortByMaterialKeepingOrder(products) == products

RECURSIVE SortByMaterial(_)
\* sorted(products, key=material_code) on keys of one type: a stable insertion
\* sort
SortByMaterial(products) ==
    IF products = <<>> THEN <<>>
    ELSE LET sorted == SortByMaterial(SubSeq(products, 1, Len(products) - 1))
             last == products[Len(products)]
             before == {i \in DOMAIN sorted :
                          ~KeyLess(last.material_code, sorted[i].material_code)}
         IN SubSeq(sorted, 1, Cardinality(before)) \o <<last>>
            \o SubSeq(sorted, Cardinality(before) + 1, Len(sorted))

\* ETAPA 3: assign_supplier_to_products when there are processed products
SupplierStep(processed, best) ==
    IF HasRaised(processed) \/ processed = <<>> THEN processed
    ELSE assign_supplier_to_products(processed, best.name, best.markup)

\* ETAPAS 3.5, 4 and 5: forced fields, sort, barcodes
FinalSteps(assigned, best, ctx) ==
    IF HasRaised(assigned) \/ MixedKeys(assigned) THEN PyError
    ELSE [products |-> add_barcodes_to_products(SortByMaterial(
                           [i \in DOMAIN assigned |-> ForceFields(assigned[i], ctx.brand, best.name)])),
          supplier |-> best.name]

\* [products, supplier], or PyError when the method raises
_post_process_products(products, ctx) ==
    FinalSteps(SupplierStep(ProcessProducts(products, <<>>), determine_best_supplier(ctx)),
               determine_best_supplier(ctx), ctx)

----------------------------------------------------------------------------
(* fix_nan_in_products *)

MissingOrNaN(d, field) == field \notin DOMAIN d \/ d[field].t = "null" \/ d[field].t = "nan"

FixSize(size) == IF MissingOrNaN(size, "quantity") THEN Put(size, "quantity", JNum(0)) ELSE size

FixUnitPrice(color) ==
    IF MissingOrNaN(color, "unit_price") THEN Put(color, "unit_price", JNum(0)) ELSE color

FixSalesPrice(color, markup) ==
    IF MissingOrNaN(color, "sales_price")
    THEN Put(color, "sales_price", RoundMarkup(FMul(color.unit_price, markup))) ELSE color

\* the subtotal is computed from the quantities as they are before the sizes
\* are fixed
FixSubtotal(color) ==
    IF MissingOrNaN(color, "subtotal")
    THEN Put(color, "subtotal",
             FMul(color.unit_price,
                  TotalQuantity(SelectSeqBy(color.sizes,
                      {i \in DOMAIN color.sizes : Get(color.sizes[i], "quantity", JNull).t # "null"}))))
    ELSE color

KeepPositive(sizes) == SelectSeqBy(sizes, {i \in DOMAIN sizes : GtZero(sizes[i].quantity)})

\* every size is kept, whatever its quantity
FixSizesKeepingAll(color) ==
    Put(color, "sizes", [i \in DOMAIN color.sizes |-> FixSize(color.sizes[i])])

FixSizes(color) ==
    Put(color, "sizes", KeepPositive([i \in DOMAIN color.sizes |-> FixSize(color.sizes[i])]))

FixColor(color, markup) ==
    FixSizes(FixSubtotal(FixSalesPrice(FixUnitPrice(color), markup)))

NonEmptyColors(colors) == SelectSeqBy(colors, {i \in DOMAIN colors : colors[i].sizes # <<>>})

FixTotalPrice(product) ==
    IF MissingOrNaN(product, "total_price")
    THEN Put(product, "total_price", FSum(Subtotals(product.colors))) ELSE product

FixProduct(product, markup) ==
    FixTotalPrice(Put(product, "colors",
        NonEmptyColors([i \in DOMAIN product.colors |-> FixColor(product.colors[i], markup)])))

NonEmptyProducts(products) ==
    SelectSeqBy(products, {i \in DOMAIN products : products[i].colors # <<>>})

fix_nan_in_products(products, markup) ==
    NonEmptyProducts([i \in DOMAIN products |-> FixProduct(products[i], markup)])

\* the markup extract_document passes to fix_nan_in_products (lines 194-201)
FixMarkup(ctx) ==
    LET supplier_code == IF ctx.supplier # "" THEN get_supplier_code(ctx.supplier) ELSE JNull
        markup_value == IF Truthy(supplier_code) THEN get_markup(supplier_code) ELSE JNull
    IN IF Truthy(markup_value) THEN markup_value ELSE JNum(DEFAULT_MARKUP)

----------------------------------------------------------------------------
(* Bounds and the oracle's answers *)

MaxPages == 3     \* pages of a document
MaxColors == 3    \* colors the oracle reports over a whole document

C008 == <<"0", "0", "8">>
C009 == <<"0", "0", "9">>

RawSize(size, quantity) == JDict([size |-> JStr(size), quantity |-> quantity])

\* the colors a page answer is built from
RawColors == <<
    \* well formed, with a zero quantity the cleaner drops
    JDict([color_code |-> JStr(C008), color_name |-> JStr("Azul"),
           sizes |-> JList(<<RawSize("S", JNum(2)), RawSize("M", JNum(0)), RawSize("L", JNum(1))>>),
           unit_price |-> JNum(1000), subtotal |-> JNum(3000)]),
    \* a NaN quantity beside a valid one, no subtotal
    JDict([color_code |-> JStr(C009),
           sizes |-> JList(<<RawSize("S", JNum(2)), RawSize("M", JNaN)>>),
           unit_price |-> JNum(1000)]),
    \* no color code, only a NaN quantity, a NaN price beside a sales price
    JDict([sizes |-> JList(<<RawSize("S", JNaN)>>),
           unit_price |-> JNaN, sales_price |-> JNum(2500)]),
    \* a raw code that is no catalog code, a name the fallback table knows,
    \* infinite numbers
    JDict([color_code |-> JStr(<<"1", "2", "3", "4", "5">>), color_name |-> JStr("Navy"),
           sizes |-> JList(<<RawSize("M", JNum(3)), RawSize("L", JInf)>>),
           unit_price |-> JInf, subtotal |-> JNaN]) >>

\* material code, name and order_info of a page answer
RawHeads == <<
    [material_code |-> JStr("M1"), name |-> JStr("Polo 12"),
     order_info |-> [x \in {} |-> JNull]],
    [material_code |-> JStr("M2"), name |-> JStr("Polo"),
     order_info |-> [total_value |-> JNaN]] >>

\* the parsed answer of the page oracle: one product with the given colors
RawPage(head, colors) ==
    JDict([products |-> JList(<<JDict([name |-> head.name,
                                      material_code |-> head.material_code,
                                      colors |-> JList(colors)])>>),
           order_info |-> JDict(head.order_info)])

EmptyPage == JDict([products |-> JList(<<>>), order_info |-> JDict([x \in {} |-> JNull])])

\* the answers of the page oracle that parse
RawPages ==
    {EmptyPage} \cup
    {RawPage(RawHeads[h], [i \in DOMAIN cs |-> RawColors[cs[i]]]) :
        h \in DOMAIN RawHeads,
        cs \in UNION {[1..k -> DOMAIN RawColors] : k \in 1..MaxColors}}

\* an answer that reports an error of its own, without and with a product
ErrorPages ==
    {JDict([error |-> JStr("unreadable"), products |-> JList(<<>>)]),
     JDict([error |-> JStr("blurred"),
            products |-> JList(<<JDict([name |-> RawHeads[1].name,
                                        material_code |-> RawHeads[1].material_code,
                                        colors |-> JList(<<RawColors[1]>>)])>>)])}

\* outcomes of the page oracle: the call raises, the answer holds no JSON
\* object, or it parses
PageResponses == {PyError, JStr("no json")} \cup ErrorPages \cup RawPages

\* what process_page returns for them
PageResults == {process_page(response) : response \in PageResponses}

\* document contexts the context oracle can return
Contexts == <<
    [supplier |-> "", brand |-> ""],
    [supplier |-> "GANT", brand |-> ""],
    [supplier |-> "ACME", brand |-> "GANT"],
    [supplier |-> "LVX", brand |-> "HUGO BOSS"] >>

\* what _extract_json_from_response makes of the color oracle's answer
ColorAnswers == <<
    [code |-> JStr(C009), name |-> JStr("Orange")],
    JNull >>

\* further outcomes of the color oracle: a name that differs from the
\* catalog's in case only, an unknown code, a missing name, a name that is no
\* string, a JSON value that is no dict, and an exception of the call
MoreColorAnswers == <<
    [code |-> JStr(C008), name |-> JStr("AZUL")],
    [code |-> JStr(<<"9", "9", "9">>), name |-> JStr("Azul")],
    [code |-> JStr(C008)],
    [code |-> JStr(C008), name |-> JNum(1)],
    JList(<<>>),
    PyError >>

----------------------------------------------------------------------------
(* extract_document *)

RECURSIVE CountColors(_)
CountColors(products) ==
    IF products = <<>> THEN 0 ELSE Len(products[1].colors) + CountColors(Tail(products))

RECURSIVE AllNamed(_)
AllNamed(products) ==
    IF products = <<>> THEN 0 ELSE CountNamed(products[1].colors) + AllNamed(Tail(products))

NoJob == [status |-> "none"]

\* JobService.create_job: the record of the document's job before extraction
NewDocumentJob == [status |-> "processing"]

\* JobService.update_job_progress for the job's only model result: the job is
\* "completed" once that result is "completed" or "failed"
update_job_progress(document, model_result) ==
    IF model_result.status \in {"completed", "failed"}
    THEN Put(document, "status", "completed")
    ELSE document

Init ==
    /\ pc = "start"
    /\ context_info = [supplier |-> "", brand |-> ""]
    /\ total_pages = 0
    /\ page_num = 0
    /\ combined_result = [products |-> <<>>, order_info |-> [x \in {} |-> JNull]]
    /\ post_processed = <<>>
    /\ job = NoJob
    /\ document_job = NewDocumentJob
    /\ page_results = <<>>
    /\ fn = "extract_document"
    /\ fn_in = JNull
    /\ fn_out = JNull

\* lines 74-123: the job is marked processing, the context oracle answers and
\* the pages are rendered
AnalyzeContext ==
    /\ pc = "start"
    /\ \E c \in DOMAIN Contexts, n \in 1..MaxPages :
          /\ context_info' = Contexts[c]
          /\ total_pages' = n
          /\ combined_result' = [products |-> <<>>,
                                 order_info |-> [supplier |-> JStr(Contexts[c].supplier)]]
    /\ page_num' = 1
    /\ job' = [status |-> "processing"]
    /\ pc' = "pages"
    /\ UNCHANGED <<post_processed, document_job, page_results, fn, fn_in, fn_out>>

\* lines 154-157: order_info keys of the page fill the empty ones
MergeOrderInfo(order_info, page_info) ==
    [k \in DOMAIN order_info \cup {f \in DOMAIN page_info : Truthy(page_info[f])} |->
        IF k \in DOMAIN page_info /\ Truthy(page_info[k])
           /\ (k \notin DOMAIN order_info \/ ~Truthy(order_info[k]))
        THEN page_info[k] ELSE order_info[k]]

\* line 144: "error" in page_result and not page_result.get("products")
IsPageError(page_result) ==
    "error" \in DOMAIN page_result /\ page_result.products = <<>>

\* one iteration of the page loop whose page yields a result (lines 125-160)
PageOk(page_result) ==
    /\ pc = "pages"
    /\ page_num <= total_pages
    /\ ~IsPageError(page_result)
    /\ CountColors(combined_result.products \o page_result.products) <= MaxColors
    /\ combined_result' =
          [products |-> combined_result.products \o page_result.products,
           order_info |-> IF "order_info" \in DOMAIN page_result
                          THEN MergeOrderInfo(combined_result.order_info,
                                              page_result.order_info)
                          ELSE combined_result.order_info]
    /\ page_num' = page_num + 1
    /\ page_results' = Append(page_results, page_result)
    /\ UNCHANGED <<pc, context_info, total_pages, post_processed, job, document_job,
                   fn, fn_in, fn_out>>

\* process_page returns a result the loop merges
ProcessPage == \E page_result \in PageResults : PageOk(page_result)

\* the page loop were it to stop at a page it cannot use
PageSkippedEndsLoop ==
    /\ pc = "pages"
    /\ page_num <= total_pages
    /\ \E page_result \in PageResults :
          /\ IsPageError(page_result)
          /\ page_num # 1
          /\ page_results' = Append(page_results, page_result)
    /\ page_num' = total_pages + 1
    /\ UNCHANGED <<pc, context_info, total_pages, combined_result, post_processed, job,
                   document_job, fn, fn_in, fn_out>>

\* a page after the first for which process_page returns an error with no
\* products: the loop continues with the next page (lines 144-148)
PageSkipped ==
    /\ pc = "pages"
    /\ page_num <= total_pages
    /\ \E page_result \in PageResults :
          /\ IsPageError(page_result)
          /\ page_num # 1
          /\ page_results' = Append(page_results, page_result)
    /\ page_num' = page_num + 1
    /\ UNCHANGED <<pc, context_info, total_pages, combined_result, post_processed, job,
                   document_job, fn, fn_in, fn_out>>

\* the gemini entry written by the except branch (lines 277-283)
Failed == [status |-> "failed"]

\* the first page yields an error with no products: ValueError (line 147),
\* caught at line 274; the failed entry is stored and the progress callback run
FirstPageFails ==
    /\ pc = "pages"
    /\ page_num <= total_pages
    /\ \E page_result \in PageResults :
          /\ IsPageError(page_result)
          /\ page_num = 1
          /\ page_results' = Append(page_results, page_result)
    /\ job' = Failed
    /\ document_job' = update_job_progress(document_job, Failed)
    /\ pc' = "failed"
    /\ UNCHANGED <<context_info, total_pages, page_num, combined_result, post_processed,
                   fn, fn_in, fn_out>>

\* lines 189-287 on the outcome of _post_process_products: the failed job of
\* the except branch, or fix_nan_in_products and the completed job; the
\* progress callback runs in both
StoreResult(post) ==
    IF post = PyError
    THEN /\ job' = Failed
         /\ document_job' = update_job_progress(document_job, Failed)
         /\ pc' = "failed"
         /\ UNCHANGED <<combined_result, post_processed>>
    ELSE /\ post_processed' = post.products
         /\ combined_result' =
               [products |-> fix_nan_in_products(post.products, FixMarkup(context_info)),
                order_info |-> Put(combined_result.order_info, "supplier", JStr(post.supplier))]
         /\ job' = [status |-> "completed", result |-> combined_result']
         /\ document_job' = update_job_progress(document_job, job')
         /\ pc' = "done"

\* lines 162-186: the products after the color mapping; an exception of the
\* mapping is logged and leaves them as they were
MappedOrUnchanged(products, mapped) ==
    IF products = <<>> \/ HasRaised(mapped) THEN products ELSE mapped

\* lines 162-272 for the given answers of the color oracle
Finish(answers) ==
    StoreResult(_post_process_products(
        MappedOrUnchanged(combined_result.products,
                          map_product_colors(combined_result.products, answers)),
        context_info))

Finalize ==
    /\ pc = "pages"
    /\ page_num > total_pages
    /\ \E answers \in [1..AllNamed(combined_result.products) -> DOMAIN ColorAnswers] :
          Finish([k \in DOMAIN answers |-> ColorAnswers[answers[k]]])
    /\ UNCHANGED <<context_info, total_pages, page_num, page_results, fn, fn_in, fn_out>>

Next == AnalyzeContext \/ ProcessPage \/ PageSkipped \/ FirstPageFails \/ Finalize

Spec == Init /\ [][Next]_vars

----------------------------------------------------------------------------
(* Properties of extract_document *)

\* C1: after _post_process_products, barcode step included, every product,
\* every color and every reference line carries a supplier field, the same
\* within a product and across the products of the document.  The barcode
\* step replaces the reference lines by lines without the field.
C1_SupplierOnEveryLine ==
    pc = "done" =>
        \A i \in DOMAIN post_processed :
            /\ "supplier" \in DOMAIN post_processed[i]
            /\ \A k \in DOMAIN post_processed :
                  Get(post_processed[k], "supplier", JNull) = post_processed[i].supplier
            /\ \A j \in DOMAIN post_processed[i].colors :
                  Get(post_processed[i].colors[j], "supplier", JNull) = post_processed[i].supplier
            /\ \A j \in DOMAIN post_processed[i].references :
                  Get(post_processed[i].references[j], "supplier", JNull)
                     = post_processed[i].supplier

\* a numeric value under key k of d, if any, is a finite number
FiniteAt(d, k) == k \in DOMAIN d /\ IsNumber(d[k]) => IsFinite(d[k])

FiniteColor(color) ==
    /\ FiniteAt(color, "unit_price") /\ FiniteAt(color, "sales_price")
    /\ FiniteAt(color, "subtotal")
    /\ \A i \in DOMAIN color.sizes : FiniteAt(color.sizes[i], "quantity")

FiniteProduct(product) ==
    /\ FiniteAt(product, "total_price")
    /\ \A i \in DOMAIN product.colors : FiniteColor(product.colors[i])
    /\ \A i \in DOMAIN product.references :
          FiniteAt(product.references[i], "quantity") /\ FiniteAt(product.references[i], "counter")

\* C2: every numeric leaf of the result stored for a completed extraction is a
\* finite number, the order_info totals included, whatever NaN or infinite
\* numbers the oracle's answers held.
C2_NumericLeavesFinite ==
    job.status = "completed" =>
        /\ \A i \in DOMAIN job.result.products : FiniteProduct(job.result.products[i])
        /\ FiniteAt(job.result.order_info, "total_value")

\* C3: after _post_process_products no product has two colors with the same
\* color_code (stated for the non-empty codes, the ones the merge compares).
C3_NoDuplicateColorCodes ==
    pc = "done" =>
        \A i \in DOMAIN post_processed :
            \A j, k \in DOMAIN post_processed[i].colors :
                (j # k /\ Truthy(post_processed[i].colors[j].color_code))
                   => post_processed[i].colors[j].color_code
                         # post_processed[i].colors[k].color_code

\* C29: every reference line of the final output carries a reference, a
\* barcode and a description, and the description is the name of the product
\* followed by the color code and the size of the line: "name[color_code/size]".
C29_ReferenceLineDescribed ==
    pc = "done" =>
        \A i \in DOMAIN combined_result.products :
            \A k \in DOMAIN combined_result.products[i].references :
                /\ "reference" \in DOMAIN combined_result.products[i].references[k]
                /\ "barcode" \in DOMAIN combined_result.products[i].references[k]
                /\ "description" \in DOMAIN combined_result.products[i].references[k]
                /\ combined_result.products[i].references[k].description
                      = JStr(StrOfLabel(combined_result.products[i].name) \o "["
                             \o StrOfCode(combined_result.products[i].references[k].color_code)
                             \o "/"
                             \o StrOfLabel(combined_result.products[i].references[k].size)
                             \o "]")

\* C30: no two reference lines of the final output carry the same barcode,
\* be they lines of one product or of two products of the document.
C30_BarcodesUnique ==
    pc = "done" =>
        \A i, j \in DOMAIN combined_result.products :
            \A k \in DOMAIN combined_result.products[i].references :
                \A l \in DOMAIN combined_result.products[j].references :
                    (i # j \/ k # l) =>
                        combined_result.products[i].references[k].barcode
                           # combined_result.products[j].references[l].barcode

\* C5: in the final output the k-th reference line of a product (counting from
\* one) has counter k and reference "{material_code}.{k}".
C5_CountersSequential ==
    pc = "done" =>
        \A i \in DOMAIN combined_result.products :
            \A k \in DOMAIN combined_result.products[i].references :
                /\ combined_result.products[i].references[k].counter = JNum(k)
                /\ combined_result.products[i].references[k].reference
                      = JStr(combined_result.products[i].material_code.s \o "." \o ToString(k))

\* a completed extraction with two final products, the second with several
\* reference lines
C5_Witness ==
    /\ pc = "done"
    /\ Len(combined_result.products) = 2
    /\ Len(combined_result.products[1].references) >= 1
    /\ Len(combined_result.products[2].references) >= 2

RECURSIVE PositivePairs(_, _, _)
\* the (color, size) pairs of colors with quantity > 0, colors in order, then
\* sizes in order
PositivePairs(colors, ci, si) ==
    IF ci > Len(colors) THEN <<>>
    ELSE IF si > Len(colors[ci].sizes) THEN PositivePairs(colors, ci + 1, 1)
    ELSE IF GtZero(Get(colors[ci].sizes[si], "quantity", JNum(0)))
         THEN <<[color_code |-> Get(colors[ci], "color_code", JStr(<<>>)),
                 size |-> Get(colors[ci].sizes[si], "size", JStr("")),
                 quantity |-> colors[ci].sizes[si].quantity]>>
              \o PositivePairs(colors, ci, si + 1)
         ELSE PositivePairs(colors, ci, si + 1)

ReferencesMatch(product) ==
    /\ Len(product.references) = Len(PositivePairs(product.colors, 1, 1))
    /\ \A k \in DOMAIN product.references :
          /\ k <= Len(PositivePairs(product.colors, 1, 1))
          /\ product.references[k].color_code = PositivePairs(product.colors, 1, 1)[k].color_code
          /\ product.references[k].size = PositivePairs(product.colors, 1, 1)[k].size
          /\ product.references[k].quantity = PositivePairs(product.colors, 1, 1)[k].quantity

\* C6: in the final output the reference lines of a product are, in order,
\* the (color, size) pairs the product holds with quantity > 0; no reference
\* line names a size that is not in the product.
C6_ReferencesMatchSizes ==
    pc = "done" =>
        \A i \in DOMAIN combined_result.products : ReferencesMatch(combined_result.products[i])

ErrorWithNoProducts(page_result) ==
    "error" \in DOMAIN page_result /\ Len(page_result.products) = 0

RECURSIVE Accumulated(_)
\* the products of the page results that are no such error, in page order
Accumulated(results) ==
    IF results = <<>> THEN <<>>
    ELSE (IF ErrorWithNoProducts(results[1]) THEN <<>> ELSE results[1].products)
         \o Accumulated(Tail(results))

\* C18: determine_best_supplier returns a numeric markup for every document
\* context, the default included, so that assign_supplier_to_products always
\* has a number to multiply a unit price with.
C18_MarkupIsNumeric ==
    pc # "start" =>
        /\ determine_best_supplier(context_info).markup.t = "num"
        /\ determine_best_supplier(context_info).markup.n > 0

\* C16: in the final output every product's total_price equals the sum of
\* the non-null subtotals of the colors the product finally contains.
C16_TotalPriceIsSumOfSubtotals ==
    pc = "done" =>
        \A i \in DOMAIN combined_result.products :
            /\ "total_price" \in DOMAIN combined_result.products[i]
            /\ combined_result.products[i].total_price
                  = FSum(Subtotals(combined_result.products[i].colors))

\* C11: an error with no products on page 1 aborts the extraction with a
\* failed result and no later page is processed; such an error on a later
\* page only skips that page: every page is still processed, the accumulator
\* holds the products of all the other pages, and each of them that has a
\* valid color is a product of the post-processed result.
C11_PageFailurePolicy ==
    /\ (page_results # <<>> /\ ErrorWithNoProducts(page_results[1]))
          => pc = "failed" /\ job.status = "failed" /\ Len(page_results) = 1
    /\ pc = "pages"
          => /\ Len(page_results) = page_num - 1
             /\ combined_result.products = Accumulated(page_results)
    /\ (pc = "failed" /\ ~ErrorWithNoProducts(page_results[1]))
          => Len(page_results) = total_pages
    /\ pc = "done"
          => /\ Len(page_results) = total_pages
             /\ job.status = "completed"
             /\ \A i \in DOMAIN Accumulated(page_results) :
                   has_valid_colors(Accumulated(page_results)[i])
                      => \E k \in DOMAIN post_processed :
                            post_processed[k].material_code
                               = Accumulated(page_results)[i].material_code

\* a completed extraction of three pages whose second page was skipped and
\* whose first and third page each gave a product of the result
C11_Witness ==
    /\ pc = "done"
    /\ total_pages = 3
    /\ ErrorWithNoProducts(page_results[2])
    /\ page_results[1].products # <<>>
    /\ page_results[3].products # <<>>
    /\ Len(post_processed) = 2
    /\ Len(job.result.products) = 2

\* C12: after a first-page failure the record of the document's job has
\* status "failed" with an error message and is never "completed"; a job
\* whose extraction succeeded has status "completed".  update_job_progress
\* marks the job "completed" once its only model result is "failed".
C12_FatalJobIsFailed ==
    /\ (page_results # <<>> /\ ErrorWithNoProducts(page_results[1]))
          => /\ document_job.status = "failed"
             /\ "error" \in DOMAIN document_job
    /\ job.status = "completed" => document_job.status = "completed"

----------------------------------------------------------------------------
(* Single calls of a function: fn names it, fn_in is its argument, fn_out its
   result once pc = "return"; the variables of extract_document stay idle *)

Idle ==
    /\ context_info = [supplier |-> "", brand |-> ""]
    /\ total_pages = 0
    /\ page_num = 0
    /\ combined_result = [products |-> <<>>, order_info |-> [x \in {} |-> JNull]]
    /\ post_processed = <<>>
    /\ job = NoJob
    /\ document_job = NewDocumentJob
    /\ page_results = <<>>

idle_vars == <<context_info, total_pages, page_num, combined_result, post_processed, job,
               document_job, page_results>>

----------------------------------------------------------------------------
(* ExtractionAgent._extract_and_clean_json on one parsed answer *)

MaxSizes == 2     \* entries of color["sizes"] in an answer given to the cleaner

\* entries of color["sizes"] as the oracle can write them
RawSizeEntries == <<
    JNum(5),
    JDict([size |-> JStr("S")]),
    JDict([size |-> JStr("S"), quantity |-> JNull]),
    JDict([size |-> JStr("S"), quantity |-> JNum(-1)]),
    JDict([size |-> JStr("S"), quantity |-> JNum(0)]),
    JDict([size |-> JStr("M"), quantity |-> JNum(2)]),
    JDict([size |-> JStr("M"), quantity |-> JNaN]),
    JDict([size |-> JStr("L"), quantity |-> JInf]),
    JDict([size |-> JStr("L"), quantity |-> JNegInf]),
    JDict([size |-> JStr("L"), quantity |-> JStr(<<"3">>)]),
    JDict([size |-> JStr("L"), quantity |-> JStr(<<"x">>)]),
    JDict([size |-> JStr("L"), quantity |-> JStr(<<"n", "a", "n">>)]) >>

RawSizeLists ==
    UNION {[1..k -> {RawSizeEntries[i] : i \in DOMAIN RawSizeEntries}] : k \in 0..MaxSizes}

\* entries of product["colors"]
RawColorEntries ==
    {JDict([color_code |-> JStr(C008), sizes |-> JList(sizes), unit_price |-> JStr(<<"1", "0">>)]) :
        sizes \in RawSizeLists}
    \cup {JNum(7),
          JDict([color_code |-> JStr(C008)]),
          JDict([sizes |-> JNum(1)])}

\* a second color of the product, when there is one
SecondColors ==
    {<<>>,
     <<JDict([color_code |-> JStr(C009),
              sizes |-> JList(<<RawSizeEntries[6], RawSizeEntries[5]>>), subtotal |-> JNum(2000)])>>,
     <<JDict([color_code |-> JNull, sizes |-> JList(<<RawSizeEntries[4]>>)])>>}

\* entries of result["products"]
RawProductEntries ==
    {JDict([name |-> JStr("Polo"), material_code |-> JStr("M1"), colors |-> JList(<<c>> \o more)]) :
        c \in RawColorEntries, more \in SecondColors}
    \cup {JStr("x"),
          JDict([name |-> JStr("Polo")]),
          JDict([material_code |-> JStr("M1"), colors |-> JNull])}

\* what json.loads returns for the answers given to the cleaner
CleanInputs ==
    {JDict([products |-> JList(<<product>>), order_info |-> JDict([total_value |-> JStr(<<"x">>)])]) :
        product \in RawProductEntries}
    \cup {JList(<<>>),
          JDict([products |-> JNull]),
          JDict([order_info |-> JDict([total_value |-> JInf])])}

InitClean ==
    /\ Idle
    /\ pc = "call"
    /\ fn = "_extract_and_clean_json"
    /\ fn_in \in CleanInputs
    /\ fn_out = JNull

CallClean ==
    /\ pc = "call"
    /\ fn = "_extract_and_clean_json"
    /\ fn_out' = _extract_and_clean_json(fn_in)
    /\ pc' = "return"
    /\ UNCHANGED <<fn, fn_in, idle_vars>>

NextClean == CallClean

SpecClean == InitClean /\ [][NextClean]_vars

KeptSize(size) ==
    /\ "size" \in DOMAIN size
    /\ "quantity" \in DOMAIN size
    /\ IsNumber(size.quantity)
    /\ GtZero(size.quantity)

\* C9: every product _extract_and_clean_json returns has a non-empty colors
\* list, every color of it a non-empty sizes list, and every size both keys,
\* with a numeric quantity strictly greater than zero.
C9_CleanedQuantitiesPositive ==
    (fn = "_extract_and_clean_json" /\ pc = "return" /\ fn_out # PyError) =>
        \A i \in DOMAIN fn_out.products :
            /\ fn_out.products[i].colors # <<>>
            /\ \A j \in DOMAIN fn_out.products[i].colors :
                  /\ fn_out.products[i].colors[j].sizes # <<>>
                  /\ \A k \in DOMAIN fn_out.products[i].colors[j].sizes :
                        KeptSize(fn_out.products[i].colors[j].sizes[k])

----------------------------------------------------------------------------
(* generate_barcode on one reference line *)

\* suppliers: catalog names, a name matched by similarity, an unknown name, the
\* empty name, None, and a number (a supplier that is no string)
BarcodeSuppliers ==
    {JStr("GANT"), JStr("LVX"), JStr("Hugo Boss AG"), JStr("ACME"), JStr(""), JNull, JNum(5)}

\* product counters, on both sides of the cap at 899
BarcodeCounters == {1, 2, 50, 898, 899, 900, 1000}

\* color codes: catalog codes, raw codes shorter and longer than three
\* characters, a raw code that is no number, the empty code, None
BarcodeColorCodes ==
    {JStr(C008), JStr(C009), JStr(<<"8">>), JStr(<<"1", "2", "3", "4", "5">>),
     JStr(<<"A", "B">>), JStr(<<>>), JNull}

\* sizes: catalog labels, a lower-case label, an unknown label, None
BarcodeSizes == {JStr("S"), JStr("M"), JStr("L"), JStr("s"), JStr("ZZ"), JNull}

InitBarcode ==
    /\ Idle
    /\ pc = "call"
    /\ fn = "generate_barcode"
    /\ fn_in \in [supplier : BarcodeSuppliers, product_counter : BarcodeCounters,
                  color_code : BarcodeColorCodes, size : BarcodeSizes]
    /\ fn_out = JNull

CallBarcode ==
    /\ pc = "call"
    /\ fn = "generate_barcode"
    /\ fn_out' = JStr(generate_barcode(fn_in.supplier, fn_in.product_counter,
                                       fn_in.color_code, fn_in.size))
    /\ pc' = "return"
    /\ UNCHANGED <<fn, fn_in, idle_vars>>

NextBarcode == CallBarcode

SpecBarcode == InitBarcode /\ [][NextBarcode]_vars

\* C7: every barcode is a string of exactly 13 decimal digits that starts with
\* "00" and whose digits [4:7] are the counter plus 100 (999 from 899 on), for
\* every supplier, color code and size, the code of the except branch included.
C7_BarcodeShape ==
    (fn = "generate_barcode" /\ pc = "return") =>
        /\ Len(fn_out.s) = 13
        /\ IsDigits(fn_out.s)
        /\ SubSeq(fn_out.s, 1, 2) = <<"0", "0">>
        /\ SubSeq(fn_out.s, 5, 7)
              = Dec(100 + (IF fn_in.product_counter < 899 THEN fn_in.product_counter ELSE 899))

----------------------------------------------------------------------------
(* sanitize_for_json, called on a structure and again on its own result *)

JTuple(items) == [t |-> "tuple", items |-> items]

DEFAULT_MAX_DEPTH == 100

RECURSIVE sanitize_for_json(_, _, _, _, _)

\* a tuple becomes the list of its items, which are not visited
sanitize_tuple_items_unvisited(obj, default_number, default_str, max_depth, current_depth) ==
    IF current_depth > max_depth THEN JNull
    ELSE CASE obj.t = "null" -> JNull
           [] obj.t \in {"nan", "inf", "-inf"} -> default_number
           [] obj.t = "num" -> obj
           [] obj.t = "str" -> IF obj.s = "" THEN JStr(default_str) ELSE obj
           [] obj.t = "dict" ->
                 JDict([k \in DOMAIN obj.d |->
                           sanitize_for_json(obj.d[k], default_number, default_str,
                                             max_depth, current_depth + 1)])
           [] obj.t = "list" ->
                 JList([i \in DOMAIN obj.items |->
                           sanitize_for_json(obj.items[i], default_number, default_str,
                                             max_depth, current_depth + 1)])
           [] obj.t = "tuple" -> JList(obj.items)

\* every str is JSON serializable, so a str is replaced only when empty
sanitize_for_json(obj, default_number, default_str, max_depth, current_depth) ==
    IF current_depth > max_depth THEN JNull
    ELSE CASE obj.t = "null" -> JNull
           [] obj.t \in {"nan", "inf", "-inf"} -> default_number
           [] obj.t = "num" -> obj
           [] obj.t = "str" -> IF obj.s = "" THEN JStr(default_str) ELSE obj
           [] obj.t = "dict" ->
                 JDict([k \in DOMAIN obj.d |->
                           sanitize_for_json(obj.d[k], default_number, default_str,
                                             max_depth, current_depth + 1)])
           [] obj.t \in {"list", "tuple"} ->
                 JList([i \in DOMAIN obj.items |->
                           sanitize_for_json(obj.items[i], default_number, default_str,
                                             max_depth, current_depth + 1)])

MaxItems == 2     \* items of a list or tuple given to sanitize_for_json

SanitizeLeaves == {JNull, JNum(1), JNaN, JInf, JNegInf, JStr(""), JStr("a")}

\* lists, tuples and dicts over the values of a set
ListsOver(S) == {JList(items) : items \in UNION {[1..k -> S] : k \in 0..MaxItems}}
TuplesOver(S) == {JTuple(items) : items \in UNION {[1..k -> S] : k \in 1..MaxItems}}
DictsOver(S) == {JDict(d) : d \in [{"a"} -> S] \cup [{"a", "b"} -> S]}

\* containers of leaves
SanitizeFlat ==
    ListsOver(SanitizeLeaves) \cup TuplesOver(SanitizeLeaves) \cup DictsOver(SanitizeLeaves)

\* containers that hold a container of leaves
SanitizeNested ==
    {JList(<<x>>) : x \in SanitizeFlat} \cup {JTuple(<<x, JNaN>>) : x \in SanitizeFlat}
    \cup {JDict([a |-> x]) : x \in SanitizeFlat}

SanitizeInputs ==
    [obj : SanitizeLeaves \cup SanitizeFlat \cup SanitizeNested,
     default_number : {JNum(0), JNull},
     default_str : {"", "?"},
     max_depth : {0, 1, DEFAULT_MAX_DEPTH}]

InitSanitize ==
    /\ Idle
    /\ pc = "call"
    /\ fn = "sanitize_for_json"
    /\ fn_in \in SanitizeInputs
    /\ fn_out = <<>>

\* sanitize_for_json(x) with the chosen defaults
Sanitize ==
    /\ pc = "call"
    /\ fn = "sanitize_for_json"
    /\ fn_out' = <<sanitize_for_json(fn_in.obj, fn_in.default_number, fn_in.default_str,
                                     fn_in.max_depth, 0)>>
    /\ pc' = "again"
    /\ UNCHANGED <<fn, fn_in, idle_vars>>

\* sanitize_for_json on the result, with the same defaults
SanitizeAgain ==
    /\ pc = "again"
    /\ fn = "sanitize_for_json"
    /\ fn_out' = Append(fn_out, sanitize_for_json(fn_out[1], fn_in.default_number,
                                                  fn_in.default_str, fn_in.max_depth, 0))
    /\ pc' = "return"
    /\ UNCHANGED <<fn, fn_in, idle_vars>>

NextSanitize == Sanitize \/ SanitizeAgain

SpecSanitize == InitSanitize /\ [][NextSanitize]_vars

\* C8: sanitize_for_json is idempotent: for nested dicts, lists, tuples,
\* numbers (NaN and the infinities included), strings and None, and for fixed
\* default_number (0.0 or None), default_str and max_depth, sanitizing the
\* sanitized structure returns it unchanged.
C8_SanitizeIdempotent ==
    (fn = "sanitize_for_json" /\ pc = "return") => fn_out[2] = fn_out[1]

\* both calls made on a dict that holds a tuple with NaN and an empty string,
\* which the first call turned into a list of the defaults
C8_Witness ==
    /\ fn = "sanitize_for_json"
    /\ pc = "return"
    /\ fn_in.obj = JDict([a |-> JTuple(<<JNaN, JStr("")>>)])
    /\ fn_in.default_str = "?"
    /\ fn_out[1] = JDict([a |-> JList(<<fn_in.default_number, JStr("?")>>)])

----------------------------------------------------------------------------
(* _post_process_products on two page fragments of one material_code, in both
   orders *)

MaxFragmentColors == 2     \* colors of one page fragment

\* color codes of a fragment: catalog codes, None and the empty string
FragmentCodes == {JStr(C008), JStr(C009), JNull, JStr(<<>>)}

FragmentColor(color_code) ==
    [color_code |-> color_code, sizes |-> <<[size |-> JStr("S"), quantity |-> JNum(1)]>>]

\* a product as the cleaner returns it
Fragment(codes) ==
    [name |-> JStr("Polo"), material_code |-> JStr("M1"),
     colors |-> [i \in DOMAIN codes |-> FragmentColor(codes[i])], total_price |-> JNull]

Fragments ==
    {Fragment(codes) : codes \in UNION {[1..k -> FragmentCodes] : k \in 1..MaxFragmentColors}}

InitMerge ==
    /\ Idle
    /\ pc = "call"
    /\ fn = "_post_process_products"
    /\ fn_in \in [A : Fragments, B : Fragments, context_info : {Contexts[2]}]
    /\ fn_out = <<>>

\* _post_process_products([A, B], context_info)
PostProcessAB ==
    /\ pc = "call"
    /\ fn = "_post_process_products"
    /\ fn_out' = <<_post_process_products(<<fn_in.A, fn_in.B>>, fn_in.context_info)>>
    /\ pc' = "swapped"
    /\ UNCHANGED <<fn, fn_in, idle_vars>>

\* _post_process_products([B, A], context_info)
PostProcessBA ==
    /\ pc = "swapped"
    /\ fn = "_post_process_products"
    /\ fn_out' = Append(fn_out, _post_process_products(<<fn_in.B, fn_in.A>>, fn_in.context_info))
    /\ pc' = "return"
    /\ UNCHANGED <<fn, fn_in, idle_vars>>

NextMerge == PostProcessAB \/ PostProcessBA

SpecMerge == InitMerge /\ [][NextMerge]_vars

\* the color codes of the merged product
MergedCodes(result) ==
    {result.products[1].colors[j].color_code : j \in DOMAIN result.products[1].colors}

FragmentCodesOf(fragment) == {fragment.colors[j].color_code : j \in DOMAIN fragment.colors}

\* C4: for two fragments A and B of one material_code, post-processing [A, B]
\* and [B, A] gives a merged product with the same set of color codes, the
\* union of A's and B's, None and empty codes included.
C4_MergeOrderIndependent ==
    (fn = "_post_process_products" /\ pc = "return") =>
        /\ MergedCodes(fn_out[1]) = MergedCodes(fn_out[2])
        /\ MergedCodes(fn_out[1]) = FragmentCodesOf(fn_in.A) \cup FragmentCodesOf(fn_in.B)

----------------------------------------------------------------------------
(* The two oracle boundaries: ExtractionAgent.process_page on one outcome of
   the page oracle, ColorMappingAgent._map_single_color on one color and one
   outcome of the color oracle *)

\* a key the color does not have
Absent == [t |-> "absent"]

\* color_name values the cleaner lets through (it does not look at the key)
ColorNameInputs ==
    {Absent, JNull, JStr(""), JStr(" "), JStr("Navy"), JStr("Azul"), JStr("Laranja"),
     JStr("Zzz"), JNum(0), JNum(5), JList(<<JStr("Azul")>>)}

\* color_code values the cleaner lets through (it only adds a missing key)
ColorCodeInputs ==
    {JNull, JStr(<<>>), JStr(C008), JStr(C009), JStr(<<"1", "2", "3", "4", "5">>),
     JNum(8), JList(<<JStr(C008)>>)}

\* a cleaned color with the given code and name
ColorInput(color_code, color_name) ==
    IF color_name = Absent
    THEN [color_code |-> color_code, sizes |-> <<[size |-> JStr("S"), quantity |-> JNum(1)]>>,
          unit_price |-> JNum(1000)]
    ELSE [color_code |-> color_code, color_name |-> color_name,
          sizes |-> <<[size |-> JStr("S"), quantity |-> JNum(1)]>>,
          unit_price |-> JNum(1000)]

ColorOracleOutcomes ==
    {ColorAnswers[i] : i \in DOMAIN ColorAnswers}
    \cup {MoreColorAnswers[i] : i \in DOMAIN MoreColorAnswers}

InitOracles ==
    /\ Idle
    /\ pc = "call"
    /\ fn_out = JNull
    /\ \/ /\ fn = "process_page"
          /\ fn_in \in PageResponses
       \/ /\ fn = "_map_single_color"
          /\ \E color_code \in ColorCodeInputs, color_name \in ColorNameInputs,
                answer \in ColorOracleOutcomes :
                fn_in = [color |-> ColorInput(color_code, color_name), answer |-> answer]

CallProcessPage ==
    /\ pc = "call"
    /\ fn = "process_page"
    /\ fn_out' = process_page(fn_in)
    /\ pc' = "return"
    /\ UNCHANGED <<fn, fn_in, idle_vars>>

CallMapSingleColor ==
    /\ pc = "call"
    /\ fn = "_map_single_color"
    /\ fn_out' = _map_single_color(fn_in.color, fn_in.answer)
    /\ pc' = "return"
    /\ UNCHANGED <<fn, fn_in, idle_vars>>

NextOracles == CallProcessPage \/ CallMapSingleColor

SpecOracles == InitOracles /\ [][NextOracles]_vars

\* the page oracle's outcome is no JSON object
OracleFailed(response) == response = PyError \/ response.t # "dict"

\* C13: process_page never raises and returns a dict with a products list,
\* empty and with an error field when the oracle call throws or its answer is
\* malformed; _map_single_color never raises, whatever color_name and
\* color_code the cleaner let through.  A color_name that is no string has no
\* strip(), and the call is outside the try block.
C13_OracleFailuresContained ==
    pc = "return" =>
        /\ fn = "process_page" =>
              /\ fn_out # PyError
              /\ "products" \in DOMAIN fn_out
              /\ OracleFailed(fn_in) =>
                    fn_out.products = <<>> /\ "error" \in DOMAIN fn_out
        /\ fn = "_map_single_color" => fn_out # PyError

\* the output holds a catalog code with the catalog's name for it
CatalogPair(color) ==
    /\ "color_code" \in DOMAIN color /\ "color_name" \in DOMAIN color
    /\ InColorMap(color.color_code)
    /\ color.color_name = ColorNameOf(color.color_code)

\* key k is the same in both colors, or in neither
SameField(a, b, k) ==
    (k \in DOMAIN a <=> k \in DOMAIN b) /\ (k \in DOMAIN a => a[k] = b[k])

\* C14: _map_single_color outputs either a catalog code with the catalog's
\* name for that code, or the color with color_code and color_name unchanged;
\* all other fields are unchanged.  An answer whose name differs from the
\* catalog's in case only is taken as it is.
C14_CatalogPairOrUnchanged ==
    (pc = "return" /\ fn = "_map_single_color") =>
        /\ fn_out # PyError
        /\ \/ CatalogPair(fn_out)
           \/ SameField(fn_in.color, fn_out, "color_code")
              /\ SameField(fn_in.color, fn_out, "color_name")
        /\ \A k \in (DOMAIN fn_in.color \cup DOMAIN fn_out) \ {"color_code", "color_name"} :
              SameField(fn_in.color, fn_out, k)

\* C19: a color whose incoming color_code is a catalog code keeps that code
\* and gets the catalog's name for it, whatever its incoming name and whatever
\* the oracle or the fallback table say about that name.  The code of the
\* mapping found for the name replaces the color's own code.
C19_CodeIsSourceOfTruth ==
    (pc = "return" /\ fn = "_map_single_color" /\ InColorMap(fn_in.color.color_code)) =>
        /\ fn_out # PyError
        /\ fn_out.color_code = fn_in.color.color_code
        /\ fn_out.color_name = ColorNameOf(fn_in.color.color_code)

----------------------------------------------------------------------------
(* The category of one product: _post_process_products on a document with that
   product, then map_category on the same category, product name and brand *)

\* declared categories: none, catalog members, English names, names that are
\* close to a member, free text, a number
DeclaredCategories ==
    {JNull, JStr(""), JStr("SWEATSHIRTS"), JStr("T-SHIRTS"), JStr("TOP"), JStr("Polo Shirts"),
     JStr(" malhas "), JStr("JACKET"), JStr("shirt"), JStr("Denim pants"), JStr("Knit"),
     JStr("CALCAS"), JStr("VESTIDO5"), JStr("XYZ"), JNum(5)}

ProductNames == {JStr("Paddy"), JStr("Shirt"), JStr("")}

Brands == {"", "GANT", "HUGO BOSS", "Boss Orange"}

\* a cleaned product with the declared category
CategoryProduct(category, name) ==
    [name |-> name, material_code |-> JStr("M1"), category |-> category,
     colors |-> <<FragmentColor(JStr(C008))>>, total_price |-> JNull]

InitCategory ==
    /\ Idle
    /\ pc = "call"
    /\ fn = "map_category"
    /\ fn_in \in [category : DeclaredCategories, product_name : ProductNames, brand : Brands]
    /\ fn_out = <<>>

\* _post_process_products on the document
PostProcessCategory ==
    /\ pc = "call"
    /\ fn = "map_category"
    /\ fn_out' = <<_post_process_products(
                      <<CategoryProduct(fn_in.category, fn_in.product_name)>>,
                      [supplier |-> "GANT", brand |-> fn_in.brand])>>
    /\ pc' = "mapping"
    /\ UNCHANGED <<fn, fn_in, idle_vars>>

\* map_category(category, product_name, brand) for a category that is a
\* string or None
CallMapCategory ==
    /\ pc = "mapping"
    /\ fn = "map_category"
    /\ fn_out' = Append(fn_out,
                        IF fn_in.category.t \in {"str", "null"}
                        THEN map_category(fn_in.category, fn_in.product_name, JStr(fn_in.brand))
                        ELSE JNull)
    /\ pc' = "return"
    /\ UNCHANGED <<fn, fn_in, idle_vars>>

NextCategory == PostProcessCategory \/ CallMapCategory

SpecCategory == InitCategory /\ [][NextCategory]_vars

\* the output of _post_process_products holds the product
HasOutput(result) == result # PyError /\ result.products # <<>>

\* C15: map_category returns a member of CATEGORIES for every category,
\* product name and brand (strings or None), and every product of the
\* post-processed output has a category that is a member of CATEGORIES, also
\* when the declared category is empty, None or unknown.
C15_CategoryIsCatalogMember ==
    (fn = "map_category" /\ pc = "return") =>
        /\ fn_in.category.t \in {"str", "null"} =>
              fn_out[2].t = "str" /\ InCategories(fn_out[2].s)
        /\ HasOutput(fn_out[1]) =>
              \A i \in DOMAIN fn_out[1].products :
                  /\ fn_out[1].products[i].category.t = "str"
                  /\ InCategories(fn_out[1].products[i].category.s)

\* a product declared with a category that is no catalog entry in any way:
\* both normalisers fall back to the default category
C15_Witness ==
    /\ fn = "map_category" /\ pc = "return"
    /\ fn_in.category = JStr("XYZ")
    /\ HasOutput(fn_out[1])
    /\ fn_out[1].products[1].category = JStr(DEFAULT_CATEGORY)
    /\ fn_out[2] = JStr(DEFAULT_CATEGORY)

\* C20: the category the post-processor assigns equals map_category of the
\* same declared category, product name and brand; a declared category that
\* is a catalog member is kept.  The post-processor has its own rules and
\* never calls map_category: SWEATSHIRTS becomes MALHAS.
C20_CategoryEqualsMapCategory ==
    (fn = "map_category" /\ pc = "return" /\ HasOutput(fn_out[1])) =>
        /\ fn_out[1].products[1].category = fn_out[2]
        /\ (fn_in.category.t = "str" /\ InCategories(fn_in.category.s))
              => fn_out[1].products[1].category = fn_in.category

\* the text map_category works on: "" for None
CategoryText(category) == IF Truthy(category) THEN category.s ELSE ""

\* the first step of map_category that matches
FirstCategoryRule(category, product_name, brand) ==
    CHOOSE k \in 1..7 :
        /\ CategoryRule(k, category, product_name, brand) # ""
        /\ \A m \in 1..(k - 1) : CategoryRule(m, category, product_name, brand) = ""

\* C21: map_category applies its rules in the order exact catalog match,
\* catalog substring, HUGO BOSS polos, translation table, translation-table
\* substring, keyword scan, closest match or default, and returns the answer
\* of the first rule that matches.
C21_FirstMatchingRuleWins ==
    (fn = "map_category" /\ pc = "return" /\ fn_in.category.t \in {"str", "null"}) =>
        fn_out[2] = JStr(CategoryRule(
                        FirstCategoryRule(CategoryText(fn_in.category),
                                          fn_in.product_name, JStr(fn_in.brand)),
                        CategoryText(fn_in.category), fn_in.product_name, JStr(fn_in.brand)))

\* a HUGO BOSS product named Paddy declared as JACKET: the special case
\* answers POLOS although the translation table holds JACKET
C21_Witness ==
    /\ fn = "map_category" /\ pc = "return"
    /\ fn_in.category = JStr("JACKET")
    /\ fn_in.product_name = JStr("Paddy")
    /\ fn_in.brand = "HUGO BOSS"
    /\ CategoryRule(4, "JACKET", fn_in.product_name, JStr(fn_in.brand)) = "CASACOS"
    /\ fn_out[2] = JStr("POLOS")

-----------------------------------------------------------------------------
(* _post_process_products on the products of a document whose material codes
   differ in value and in type *)

MaxProducts == 3     \* products of the document

\* material codes as the cleaner passes them on: strings, the empty string,
\* None, an integer and a list
MaterialCodes ==
    {JStr("M1"), JStr("M2"), JStr("M10"), JStr("A-9"), JStr(""), JNull, JNum(7),
     JList(<<JStr("M1")>>)}

\* a cleaned product with one color of one size
MaterialProduct(material_code) ==
    [name |-> JStr("Polo"), material_code |-> material_code,
     colors |-> <<FragmentColor(JStr(C008))>>, total_price |-> JNull]

\* a cleaned product whose only color has no size
SizelessProduct ==
    [name |-> JStr("Polo"), material_code |-> JStr("M1"),
     colors |-> <<[color_code |-> JStr(C009), sizes |-> <<>>]>>, total_price |-> JNull]

MaterialProducts == {MaterialProduct(code) : code \in MaterialCodes} \cup {SizelessProduct}

InitMaterial ==
    /\ Idle
    /\ pc = "call"
    /\ fn = "_post_process_products"
    /\ fn_in \in [products : UNION {[1..k -> MaterialProducts] : k \in 1..MaxProducts},
                  context_info : {Contexts[2]}]
    /\ fn_out = <<>>

\* _post_process_products(products, context_info)
PostProcessDocument ==
    /\ pc = "call"
    /\ fn = "_post_process_products"
    /\ fn_out' = <<_post_process_products(fn_in.products, fn_in.context_info)>>
    /\ pc' = "return"
    /\ UNCHANGED <<fn, fn_in, idle_vars>>

NextMaterial == PostProcessDocument

SpecMaterial == InitMaterial /\ [][NextMaterial]_vars

\* C17: after _post_process_products material_code is a key of the output:
\* no two products share a material_code, every product has a non-empty
\* material_code, and the products are in ascending order of material_code.
C17_MaterialCodeIsKey ==
    (fn = "_post_process_products" /\ pc = "return" /\ HasOutput(fn_out[1])) =>
        /\ \A i, j \in DOMAIN fn_out[1].products :
              i # j => fn_out[1].products[i].material_code # fn_out[1].products[j].material_code
        /\ \A i \in DOMAIN fn_out[1].products :
              /\ "material_code" \in DOMAIN fn_out[1].products[i]
              /\ Truthy(fn_out[1].products[i].material_code)
        /\ \A i \in DOMAIN fn_out[1].products :
              i < Len(fn_out[1].products) =>
                  KeyLess(fn_out[1].products[i].material_code,
                          fn_out[1].products[i + 1].material_code)

\* a document that names M2 on two pages with M10 between them: the output
\* is M10, M2
C17_Witness ==
    /\ fn = "_post_process_products" /\ pc = "return"
    /\ Len(fn_in.products) = 3
    /\ fn_in.products[1] = MaterialProduct(JStr("M2"))
    /\ fn_in.products[2] = MaterialProduct(JStr("M10"))
    /\ fn_in.products[3] = MaterialProduct(JStr("M2"))
    /\ HasOutput(fn_out[1])
    /\ Len(fn_out[1].products) = 2
    /\ fn_out[1].products[1].material_code = JStr("M10")
    /\ fn_out[1].products[2].material_code = JStr("M2")

-----------------------------------------------------------------------------
(* Prices: assign_supplier_to_products, fix_nan_in_products, and the two of
   them as extract_document runs them (lines 188-205) on a one-color product *)

\* a price field of a color or a product: missing, None, NaN, 0 or the number
PriceInputs(number) == {Absent, JNull, JNaN, JNum(0), JNum(number)}

\* d with d[k] = v, or d when the field is missing
WithField(d, k, v) == IF v = Absent THEN d ELSE Put(d, k, v)

\* sizes as the cleaner passes them on: quantities above 0 and NaN
CleanedSizes ==
    {<<[size |-> JStr("S"), quantity |-> JNum(2)]>>,
     <<[size |-> JStr("S"), quantity |-> JNum(2)], [size |-> JStr("M"), quantity |-> JNaN]>>}

\* sizes whose quantity is missing, None or 0
OtherSizes ==
    {<<[size |-> JStr("S"), quantity |-> JNum(2)], [size |-> JStr("M"), quantity |-> JNull]>>,
     <<[size |-> JStr("S"), quantity |-> JNum(2)], [size |-> JStr("M")]>>,
     <<[size |-> JStr("S"), quantity |-> JNum(0)]>>}

PriceColor(unit_price, sales_price, subtotal, sizes) ==
    WithField(WithField(WithField([color_code |-> JStr(C008), sizes |-> sizes],
                                  "unit_price", unit_price),
                        "sales_price", sales_price),
              "subtotal", subtotal)

PriceProduct(color, total_price) ==
    WithField([name |-> JStr("Polo"), material_code |-> JStr("M1"), colors |-> <<color>>,
               references |-> <<>>],
              "total_price", total_price)

PriceProducts(sizes) ==
    {PriceProduct(PriceColor(unit_price, sales_price, subtotal, sz), total_price) :
        unit_price \in PriceInputs(1000), sales_price \in PriceInputs(2500),
        subtotal \in PriceInputs(3000), sz \in sizes, total_price \in PriceInputs(5000)}

InitPrices ==
    /\ Idle
    /\ pc = "call"
    /\ \/ /\ fn \in {"extract_document", "assign_supplier_to_products"}
          /\ fn_in \in [product : PriceProducts(CleanedSizes), context_info : {Contexts[3]}]
       \/ /\ fn = "extract_document"
          /\ fn_in \in [product : PriceProducts({<<[size |-> JStr("S"), quantity |-> JNum(2)]>>}),
                        context_info : {Contexts[1], Contexts[2], Contexts[4]}]
       \/ /\ fn = "fix_nan_in_products"
          /\ fn_in \in [product : PriceProducts(CleanedSizes \cup OtherSizes),
                        context_info : {Contexts[2]}]
    /\ fn_out = <<>>

\* extract_document line 189: _post_process_products on the document
PostProcessPrices ==
    /\ pc = "call"
    /\ fn = "extract_document"
    /\ fn_out' = <<_post_process_products(<<fn_in.product>>, fn_in.context_info)>>
    /\ pc' = IF fn_out'[1] = PyError THEN "raised" ELSE "fixing"
    /\ UNCHANGED <<fn, fn_in, idle_vars>>

\* extract_document lines 193-205: fix_nan_in_products with the markup of the
\* context's supplier
FixPrices ==
    /\ pc = "fixing"
    /\ fn = "extract_document"
    /\ fn_out' = Append(fn_out, fix_nan_in_products(fn_out[1].products,
                                                    FixMarkup(fn_in.context_info)))
    /\ pc' = "return"
    /\ UNCHANGED <<fn, fn_in, idle_vars>>

\* assign_supplier_to_products(products, supplier_name, markup) with the
\* supplier and markup of determine_best_supplier
CallAssignSupplier ==
    /\ pc = "call"
    /\ fn = "assign_supplier_to_products"
    /\ fn_out' = <<assign_supplier_to_products(
                      <<fn_in.product>>,
                      determine_best_supplier(fn_in.context_info).name,
                      determine_best_supplier(fn_in.context_info).markup)>>
    /\ pc' = "return"
    /\ UNCHANGED <<fn, fn_in, idle_vars>>

\* fix_nan_in_products(products, markup)
CallFixNaN ==
    /\ pc = "call"
    /\ fn = "fix_nan_in_products"
    /\ fn_out' = <<fix_nan_in_products(<<fn_in.product>>, FixMarkup(fn_in.context_info))>>
    /\ pc' = "return"
    /\ UNCHANGED <<fn, fn_in, idle_vars>>

NextPrices == PostProcessPrices \/ FixPrices \/ CallAssignSupplier \/ CallFixNaN

SpecPrices == InitPrices /\ [][NextPrices]_vars

\* the only color of the product given and of the product returned
ColorIn == fn_in.product.colors[1]
ColorOut(products) == products[1].colors[1]

\* the field of the color returned is the one of the color given
KeptField(products, field) ==
    field \in DOMAIN ColorIn /\ ColorOut(products)[field] = ColorIn[field]

\* C22: every sales_price the pipeline derives for a document, in the
\* supplier-assignment pass or in the final fix_nan_in_products pass, is
\* round(unit_price * markup, 2) for the one markup determine_best_supplier
\* resolved for the document.
C22_OneMarkupPerDocument ==
    (fn = "extract_document" /\ pc = "return" /\ fn_out[2] # <<>>) =>
        \/ KeptField(fn_out[2], "sales_price")
        \/ /\ determine_best_supplier(fn_in.context_info).markup.t = "num"
           /\ ColorOut(fn_out[2]).sales_price
                 = RoundMarkup(FMul(ColorOut(fn_out[2]).unit_price,
                                    determine_best_supplier(fn_in.context_info).markup))

\* the color given holds a number in the field
PresentField(field) == field \in DOMAIN ColorIn /\ ColorIn[field].t = "num"

\* the color given holds no value in the field
MissingField(field) == field \notin DOMAIN ColorIn \/ ColorIn[field].t = "null"

\* the markup the call was made with
MarkupOfCall ==
    IF fn = "fix_nan_in_products" THEN FixMarkup(fn_in.context_info)
    ELSE determine_best_supplier(fn_in.context_info).markup

\* C23: assign_supplier_to_products and fix_nan_in_products leave a
\* sales_price and a subtotal that is a number, 0 included, as it is; for a
\* color with a unit price they set a missing sales_price to
\* round(unit_price * markup, 2) and a missing subtotal to unit_price times
\* the sum of the quantities of the color.
C23_PricesFilledNeverOverwritten ==
    (fn \in {"assign_supplier_to_products", "fix_nan_in_products"} /\ pc = "return"
        /\ ~HasRaised(fn_out[1]) /\ fn_out[1] # <<>>) =>
        /\ PresentField("sales_price") => KeptField(fn_out[1], "sales_price")
        /\ PresentField("subtotal") => KeptField(fn_out[1], "subtotal")
        /\ (MissingField("sales_price") /\ PresentField("unit_price")) =>
              /\ "sales_price" \in DOMAIN ColorOut(fn_out[1])
              /\ ColorOut(fn_out[1]).sales_price
                    = RoundMarkup(FMul(ColorIn.unit_price, MarkupOfCall))
        /\ (MissingField("subtotal") /\ PresentField("unit_price")
               /\ \A i \in DOMAIN ColorIn.sizes :
                     Get(ColorIn.sizes[i], "quantity", JNull).t = "num") =>
              /\ "subtotal" \in DOMAIN ColorOut(fn_out[1])
              /\ ColorOut(fn_out[1]).subtotal
                    = FMul(ColorIn.unit_price, TotalQuantity(ColorIn.sizes))

\* the field holds a number that is not NaN
NumberAt(d, field) == field \in DOMAIN d /\ d[field].t \in {"num", "inf", "-inf"}

\* C24: after fix_nan_in_products every surviving color has a unit_price, a
\* sales_price and a subtotal that are numbers and not NaN, and every
\* surviving product such a total_price, whatever prices and quantities of
\* the input are missing, None or NaN.
C24_NoNaNAfterFix ==
    (fn = "fix_nan_in_products" /\ pc = "return") =>
        \A i \in DOMAIN fn_out[1] :
            /\ NumberAt(fn_out[1][i], "total_price")
            /\ \A j \in DOMAIN fn_out[1][i].colors :
                  /\ NumberAt(fn_out[1][i].colors[j], "unit_price")
                  /\ NumberAt(fn_out[1][i].colors[j], "sales_price")
                  /\ NumberAt(fn_out[1][i].colors[j], "subtotal")

-----------------------------------------------------------------------------
(* determine_best_supplier on the supplier and the brand of a context *)

\* what the context oracle can name: nothing, the placeholder, catalog names,
\* names close to a catalog name, names the catalog does not know
SupplierInputs ==
    {"", UNIDENTIFIED_SUPPLIER, "GANT", "HUGO BOSS", "LVX", "Hugo Boss AG", "Gant AB",
     "ACME", "Zeta"}

BrandInputs == (SupplierInputs \ {UNIDENTIFIED_SUPPLIER}) \cup {UNIDENTIFIED_BRAND}

InitSupplier ==
    /\ Idle
    /\ pc = "call"
    /\ fn = "determine_best_supplier"
    /\ fn_in \in [supplier : SupplierInputs, brand : BrandInputs]
    /\ fn_out = <<>>

\* determine_best_supplier(context_info)
CallDetermineBestSupplier ==
    /\ pc = "call"
    /\ fn = "determine_best_supplier"
    /\ fn_out' = <<determine_best_supplier(fn_in)>>
    /\ pc' = "return"
    /\ UNCHANGED <<fn, fn_in, idle_vars>>

NextSupplier == CallDetermineBestSupplier

SpecSupplier == InitSupplier /\ [][NextSupplier]_vars

\* the name is a candidate: the supplier unless empty or the placeholder, the
\* brand unless empty, the placeholder or the supplier again
IsCandidate(source) ==
    IF source = "supplier" THEN fn_in.supplier \notin {"", UNIDENTIFIED_SUPPLIER}
    ELSE fn_in.brand \notin {"", UNIDENTIFIED_BRAND, fn_in.supplier}

\* the candidate is a catalog name; it is none but resolves to one
ExactMatch(source) == IsCandidate(source) /\ fn_in[source] \in SupplierNames
FuzzyMatch(source) ==
    /\ IsCandidate(source)
    /\ fn_in[source] \notin SupplierNames
    /\ match_supplier_name(fn_in[source]) \in SupplierNames

\* the supplier the stated order of preference picks, "" when no candidate
\* resolves to a catalog supplier
PreferredSupplier ==
    IF ExactMatch("supplier") THEN fn_in.supplier
    ELSE IF ExactMatch("brand") THEN fn_in.brand
    ELSE IF FuzzyMatch("supplier") THEN match_supplier_name(fn_in.supplier)
    ELSE IF FuzzyMatch("brand") THEN match_supplier_name(fn_in.brand)
    ELSE ""

\* C25: determine_best_supplier prefers a supplier that is a catalog name,
\* then a brand that is one, then a supplier that resolves to a catalog name,
\* then a brand that does; only when neither candidate resolves is the first
\* raw candidate returned, with no supplier code.
C25_SupplierPreferenceOrder ==
    (fn = "determine_best_supplier" /\ pc = "return"
        /\ (IsCandidate("supplier") \/ IsCandidate("brand"))) =>
        IF PreferredSupplier # ""
        THEN /\ fn_out[1].name = PreferredSupplier
             /\ fn_out[1].code = SupplierCodeOf(PreferredSupplier)
        ELSE /\ fn_out[1].name = (IF IsCandidate("supplier") THEN fn_in.supplier
                                  ELSE fn_in.brand)
             /\ fn_out[1].code = JNull

\* a supplier that only resolves to GANT beside a brand that is the catalog
\* name HUGO BOSS: the brand is chosen
C25_Witness ==
    /\ fn = "determine_best_supplier" /\ pc = "return"
    /\ fn_in.supplier = "Gant AB"
    /\ fn_in.brand = "HUGO BOSS"
    /\ fn_out[1].name = "HUGO BOSS"
    /\ fn_out[1].code = SupplierCodeOf("HUGO BOSS")

-----------------------------------------------------------------------------
(* The page loop of extract_document with the call of the page oracle and its
   answer as two steps; fn_in is the call in flight, fn_out the calls so far *)

\* the outcomes of the page oracle the loop is run with
SampleResponses ==
    {PyError, JStr("no json"), EmptyPage,
     RawPage(RawHeads[1], <<RawColors[1]>>), RawPage(RawHeads[2], <<RawColors[2]>>)}
    \cup ErrorPages

InitPages ==
    /\ pc = "start"
    /\ context_info = [supplier |-> "", brand |-> ""]
    /\ total_pages = 0
    /\ page_num = 0
    /\ combined_result = [products |-> <<>>, order_info |-> [x \in {} |-> JNull]]
    /\ post_processed = <<>>
    /\ job = NoJob
    /\ document_job = NewDocumentJob
    /\ page_results = <<>>
    /\ fn = "extract_document"
    /\ fn_in = JNull
    /\ fn_out = <<>>

\* the previous_result no call of process_page is given
PreviousResultNeverPassed(page, combined) == JNull

\* line 138: combined_result if not is_first_page else None
PreviousResult(page, combined) == IF page = 1 THEN JNull ELSE combined

\* process_page line 76: the count the prompt of a later page is built with;
\* the prompt of the first page is built without it
previous_products_count(page_number, previous_result) ==
    IF page_number = 1 THEN JNull
    ELSE IF previous_result = JNull THEN JNum(0)
    ELSE JNum(Len(previous_result.products))

\* extract_document calls process_page for the next page, which sends the
\* prompt to the oracle (lines 125-139, process_page lines 56-82)
CallPageOracle ==
    /\ pc = "pages"
    /\ page_num <= total_pages
    /\ fn_in' = [page_number |-> page_num,
                 previous_products_count |->
                     previous_products_count(page_num,
                                             PreviousResult(page_num, combined_result))]
    /\ fn_out' = Append(fn_out, fn_in')
    /\ pc' = "oracle"
    /\ UNCHANGED <<context_info, total_pages, page_num, combined_result, post_processed,
                   job, document_job, page_results, fn>>

\* the loop body after the await (lines 141-160): the page fails the
\* document, is skipped, or is merged
AfterPage(page_result) ==
    /\ page_results' = Append(page_results, page_result)
    /\ IF IsPageError(page_result) /\ page_num = 1
       THEN /\ job' = Failed
            /\ document_job' = update_job_progress(document_job, Failed)
            /\ pc' = "failed"
            /\ UNCHANGED <<page_num, combined_result>>
       ELSE /\ pc' = "pages"
            /\ page_num' = page_num + 1
            /\ combined_result' =
                  IF IsPageError(page_result) THEN combined_result
                  ELSE [products |-> combined_result.products \o page_result.products,
                        order_info |-> IF "order_info" \in DOMAIN page_result
                                       THEN MergeOrderInfo(combined_result.order_info,
                                                           page_result.order_info)
                                       ELSE combined_result.order_info]
            /\ UNCHANGED <<job, document_job>>

\* the oracle answers, or fails, and process_page returns
PageAnswered ==
    /\ pc = "oracle"
    /\ \E response \in SampleResponses : AfterPage(process_page(response))
    /\ fn_in' = JNull
    /\ UNCHANGED <<context_info, total_pages, post_processed, fn, fn_out>>

NextPages == AnalyzeContext \/ CallPageOracle \/ PageAnswered \/ Finalize

SpecPages == InitPages /\ [][NextPages]_vars

\* C26: pages are processed one at a time in ascending order: the k-th call
\* of the page oracle is for page k and is made when the results of all
\* pages before k are in, and the count of prior products it passes for a
\* page after the first is the number of products accumulated from the pages
\* before it, failed pages contributing none.
C26_PagesInOrder ==
    /\ Len(fn_out) = Len(page_results) + (IF pc = "oracle" THEN 1 ELSE 0)
    /\ pc = "oracle" => fn_in.page_number = page_num /\ Len(page_results) = page_num - 1
    /\ \A k \in DOMAIN fn_out :
          /\ fn_out[k].page_number = k
          /\ k > 1 /\ k <= Len(page_results) + 1 =>
                fn_out[k].previous_products_count
                   = JNum(Len(Accumulated(SubSeq(page_results, 1, k - 1))))

\* a document of three pages, the second of which failed: the call for the
\* third page passes the products of the first page alone
C26_Witness ==
    /\ Len(fn_out) = 3
    /\ Len(page_results) = 3
    /\ ErrorWithNoProducts(page_results[2])
    /\ page_results[1].products # <<>>
    /\ page_results[3].products # <<>>
    /\ fn_out[3].previous_products_count = JNum(Len(page_results[1].products))

-----------------------------------------------------------------------------
(* Two documents in flight: DocumentService._process_document_task twice *)

\* In this section every variable of extract_document is a function of the
\* task: pc[t], context_info[t] (current_context_info of the task's own
\* extractor), total_pages[t], page_num[t], combined_result[t], and job[t] is
\* the request the task has with an oracle. document_job is JobService.jobs,
\* page_results is the directory CONVERTED_DIR, post_processed the results
\* directory, fn_in the uploaded files, and fn_out records who wrote which
\* job and whether the two tasks ever were in flight together.

DocumentPages == 2     \* pages of a readable document

Tasks == {1, 2}
UploadPaths == {"a.pdf", "b.pdf"}
DocContents == {"A", "B", "X"}     \* "X": the first page cannot be extracted
NoImage == <<"", 0>>
NoFile == [status |-> "none"]

OtherTask(t) == 3 - t

\* uuid.uuid4() of create_job: a job id no other job has
JobOf(t) == t

\* get_gemini_extractor: every request gets an extractor of its own
ExtractorOf(t) == t

PagesOf(content) == IF content = "X" THEN 1 ELSE DocumentPages

ImagePathForAllDocuments(pdf_path, page_idx) == <<"", page_idx>>

\* convert_pdf_to_images: f"{os.path.basename(pdf_path)}_page_{page_idx+1}.png"
ImagePath(pdf_path, page_idx) == <<pdf_path, page_idx>>

ImagePaths == (UploadPaths \cup {""}) \X (1..(DocumentPages + 1))

\* convert_pdf_to_images(pdf_path, CONVERTED_DIR, pages): the pages of the
\* file now at pdf_path, rendered over whatever the directory holds
convert_pdf_to_images(directory, disk, pdf_path, pages) ==
    [image_path \in ImagePaths |->
        IF \E k \in pages : image_path = ImagePath(pdf_path, k)
        THEN <<disk[pdf_path], image_path[2]>>
        ELSE directory[image_path]]

\* the context oracle is a function of the text and first page it is given
ContextAnswer(request) == request

\* the page oracle is a function of the image it is given
PageAnswer(image) ==
    IF image[1] \in {"", "X"} THEN [error |-> "unreadable", products |-> <<>>]
    ELSE [products |-> <<image>>]

\* jobs_store[job_id]["model_results"]["gemini"] = model_result, by task t
WriteJob(jobs, t, model_result) ==
    [jobs EXCEPT ![JobOf(t)] = [@ EXCEPT !.gemini = model_result]]

\* update_progress_callback(job_id)
UpdateJob(jobs, t) ==
    [jobs EXCEPT ![JobOf(t)] =
        [@ EXCEPT !.status = update_job_progress([status |-> @], jobs[JobOf(t)].gemini).status,
                  !.progress = jobs[JobOf(t)].gemini.progress]]

Wrote(t) ==
    [fn_out EXCEPT !.written_by[JobOf(t)] = @ \cup {t},
                   !.overlapped = @ \/ pc[OtherTask(t)] \in {"context", "page"}]

InitTasks ==
    /\ fn = "tasks"
    /\ \E file_path \in [Tasks -> UploadPaths], disk \in [UploadPaths -> DocContents] :
          fn_in = [file_path |-> file_path, disk |-> disk]
    /\ pc = [t \in Tasks |-> "created"]
    /\ context_info = [e \in Tasks |-> JNull]
    /\ total_pages = [t \in Tasks |-> 0]
    /\ page_num = [t \in Tasks |-> 0]
    /\ combined_result = [t \in Tasks |-> <<>>]
    /\ job = [t \in Tasks |-> JNull]
    /\ document_job = [j \in Tasks |->
                          [status |-> "processing", progress |-> 0,
                           file_path |-> fn_in.file_path[j], gemini |-> NoJob]]
    /\ page_results = [image_path \in ImagePaths |-> NoImage]
    /\ post_processed = [j \in Tasks |-> NoFile]
    /\ fn_out = [written_by |-> [j \in Tasks |-> {}], overlapped |-> FALSE]

\* extract_document up to its await of analyze_context: the job is initialised
\* and the context agent renders the first page and calls its oracle
StartTask(t) ==
    /\ fn = "tasks"
    /\ pc[t] = "created"
    /\ document_job' = WriteJob(document_job, t, [status |-> "processing", progress |-> 10])
    /\ page_results' = convert_pdf_to_images(page_results, fn_in.disk, fn_in.file_path[t], {1})
    /\ job' = [job EXCEPT ![t] =
                  [pdf_text |-> fn_in.disk[fn_in.file_path[t]],
                   image |-> page_results'[ImagePath(fn_in.file_path[t], 1)]]]
    /\ pc' = [pc EXCEPT ![t] = "context"]
    /\ fn_out' = Wrote(t)
    /\ UNCHANGED <<context_info, total_pages, page_num, combined_result, post_processed,
                   fn, fn_in>>

\* the context oracle answers: analyze_context stores the context in the
\* extractor, extract_document reads it back, renders every page and calls
\* the page oracle for page 1
ContextAnswered(t) ==
    /\ fn = "tasks"
    /\ pc[t] = "context"
    /\ context_info' = [context_info EXCEPT ![ExtractorOf(t)] = ContextAnswer(job[t])]
    /\ page_results' = convert_pdf_to_images(page_results, fn_in.disk, fn_in.file_path[t],
                                             1..PagesOf(fn_in.disk[fn_in.file_path[t]]))
    /\ total_pages' = [total_pages EXCEPT ![t] = PagesOf(fn_in.disk[fn_in.file_path[t]])]
    /\ combined_result' = [combined_result EXCEPT ![t] = <<>>]
    /\ page_num' = [page_num EXCEPT ![t] = 1]
    /\ document_job' = WriteJob(document_job, t, [status |-> "processing", progress |-> 15])
    /\ job' = [job EXCEPT ![t] = page_results'[ImagePath(fn_in.file_path[t], 1)]]
    /\ pc' = [pc EXCEPT ![t] = "page"]
    /\ fn_out' = Wrote(t)
    /\ UNCHANGED <<post_processed, fn, fn_in>>

\* progress after page_num pages of total_pages
PageProgress(pages_done, pages) == 15 + pages_done * (80 \div pages)

\* the page oracle answers a page that is not the last one, or the first page
\* fails, or the last page is answered and the result is stored
TaskPageAnswered(t) ==
    /\ fn = "tasks"
    /\ pc[t] = "page"
    /\ LET page_result == PageAnswer(job[t])
           failed == "error" \in DOMAIN page_result /\ page_result.products = <<>>
           products == IF failed THEN combined_result[t]
                       ELSE combined_result[t] \o page_result.products
           result == [products |-> products, context_info |-> context_info[ExtractorOf(t)]]
       IN  IF failed /\ page_num[t] = 1
           THEN /\ document_job' = UpdateJob(WriteJob(document_job, t,
                                        [status |-> "failed", progress |-> 0]), t)
                /\ pc' = [pc EXCEPT ![t] = "done"]
                /\ UNCHANGED <<combined_result, page_num, job, post_processed>>
           ELSE IF page_num[t] < total_pages[t]
           THEN /\ combined_result' = [combined_result EXCEPT ![t] = products]
                /\ page_num' = [page_num EXCEPT ![t] = @ + 1]
                /\ document_job' = WriteJob(document_job, t,
                                      [status |-> "processing",
                                       progress |-> PageProgress(page_num[t], total_pages[t])])
                /\ job' = [job EXCEPT ![t] =
                              page_results[ImagePath(fn_in.file_path[t], page_num[t] + 1)]]
                /\ UNCHANGED <<pc, post_processed>>
           ELSE /\ combined_result' = [combined_result EXCEPT ![t] = products]
                /\ document_job' = UpdateJob(WriteJob(document_job, t,
                                        [status |-> "completed", progress |-> 100,
                                         result |-> result]), t)
                /\ post_processed' = [post_processed EXCEPT ![JobOf(t)] = result]
                /\ pc' = [pc EXCEPT ![t] = "done"]
                /\ UNCHANGED <<page_num, job>>
    /\ fn_out' = Wrote(t)
    /\ UNCHANGED <<context_info, total_pages, page_results, fn, fn_in>>

NextTasks == \E t \in Tasks : StartTask(t) \/ ContextAnswered(t) \/ TaskPageAnswered(t)

SpecTasks == InitTasks /\ [][NextTasks]_vars

\* the images of the pages of a document, rendered with nothing else going on
RECURSIVE PagesAlone(_, _)
PagesAlone(content, k) ==
    IF k = 0 THEN <<>>
    ELSE LET page_result == PageAnswer(<<content, k>>)
         IN  PagesAlone(content, k - 1)
                \o (IF "error" \in DOMAIN page_result THEN <<>> ELSE page_result.products)

\* what extract_document stores for the document when no other task runs
ResultAlone(content) ==
    [products |-> PagesAlone(content, PagesOf(content)),
     context_info |-> ContextAnswer([pdf_text |-> content, image |-> <<content, 1>>])]

\* jobs_store[job_id] of the document when no other task runs
JobAlone(t) ==
    LET content == fn_in.disk[fn_in.file_path[t]]
    IN  [status |-> "completed",
         progress |-> IF content = "X" THEN 0 ELSE 100,
         file_path |-> fn_in.file_path[t],
         gemini |-> IF content = "X" THEN [status |-> "failed", progress |-> 0]
                    ELSE [status |-> "completed", progress |-> 100,
                          result |-> ResultAlone(content)]]

\* the documents the products and the context of task t come from
SourcesOf(t) ==
    {combined_result[t][i][1] : i \in DOMAIN combined_result[t]}
       \cup (IF context_info[ExtractorOf(t)] = JNull THEN {}
             ELSE {context_info[ExtractorOf(t)].pdf_text,
                   context_info[ExtractorOf(t)].image[1]})

-----------------------------------------------------------------------------
(* ProcessingRecovery.retry_processing_with_fixes *)

MaxRetries == 4     \* largest max_retries given to retry_processing_with_fixes

\* an exception whose message names NaN, which the except branch looks for
NaNError == [t |-> "error", message |-> "NaN"]

\* what one call of process_func does: it raises, or returns a result that
\* is clean or holds a NaN or an infinity
AttemptOutcomes ==
    {PyError, NaNError,
     JDict([products |-> JList(<<JDict([unit_price |-> JNum(1000)])>>)]),
     JDict([products |-> JList(<<JDict([unit_price |-> JNaN])>>)]),
     JDict([products |-> JList(<<JDict([unit_price |-> JInf])>>)])}

RECURSIVE sanitize_json_data(_)
sanitize_json_data(data) ==
    CASE data.t = "dict" -> JDict([k \in DOMAIN data.d |-> sanitize_json_data(data.d[k])])
      [] data.t = "list" ->
            JList([i \in DOMAIN data.items |-> sanitize_json_data(data.items[i])])
      [] data.t \in {"nan", "inf", "-inf"} -> JNull
      [] OTHER -> data

\* fn_out holds the counter of the loop, the outcome of every call of
\* process_func so far and, once the function has returned, what it returned
InitRetry ==
    /\ pc = "loop"
    /\ fn = "retry_processing_with_fixes"
    /\ \E max_retries \in 1..MaxRetries : fn_in = [max_retries |-> max_retries]
    /\ fn_out = [retries |-> 0, attempts |-> <<>>, returned |-> Absent]
    /\ Idle

\* one iteration of the while loop: process_func raises; no "result" is
\* among the keyword arguments, so a NaN error changes nothing else
AttemptRaises ==
    /\ pc = "loop"
    /\ fn = "retry_processing_with_fixes"
    /\ fn_out.retries < fn_in.max_retries
    /\ \E e \in {PyError, NaNError} :
          fn_out' = [fn_out EXCEPT !.retries = @ + 1, !.attempts = Append(@, e)]
    /\ UNCHANGED <<pc, fn, fn_in, idle_vars>>

\* one iteration of the while loop: process_func returns; a result that
\* sanitizing changes is dropped on the first iteration, and returned
\* sanitized otherwise
AttemptReturns ==
    /\ pc = "loop"
    /\ fn = "retry_processing_with_fixes"
    /\ fn_out.retries < fn_in.max_retries
    /\ \E result \in {outcome \in AttemptOutcomes : outcome.t # "error"} :
          IF sanitize_json_data(result) # result /\ fn_out.retries = 0
          THEN /\ fn_out' = [fn_out EXCEPT !.retries = 1, !.attempts = Append(@, result)]
               /\ pc' = pc
          ELSE /\ fn_out' = [fn_out EXCEPT !.attempts = Append(@, result),
                                           !.returned = sanitize_json_data(result)]
               /\ pc' = "return"
    /\ UNCHANGED <<fn, fn_in, idle_vars>>

\* the loop ends: return None
AttemptsExhausted ==
    /\ pc = "loop"
    /\ fn = "retry_processing_with_fixes"
    /\ fn_out.retries >= fn_in.max_retries
    /\ fn_out' = [fn_out EXCEPT !.returned = JNull]
    /\ pc' = "return"
    /\ UNCHANGED <<fn, fn_in, idle_vars>>

NextRetry == AttemptRaises \/ AttemptReturns \/ AttemptsExhausted

SpecRetry == InitRetry /\ [][NextRetry]_vars

\* C28: retry_processing_with_fixes calls process_func at most max_retries
\* times, what it returns other than None is the sanitized result of a call
\* that did not raise, and it returns None only when each of max_retries calls
\* raised, whether the calls raise, return a clean result or return a result
\* with NaN or Infinity in it.
C28_RetryReturnsAnAttempt ==
    fn = "retry_processing_with_fixes" =>
        /\ Len(fn_out.attempts) <= fn_in.max_retries
        /\ pc = "return" /\ fn_out.returned # JNull =>
              \E k \in DOMAIN fn_out.attempts :
                  /\ fn_out.attempts[k].t # "error"
                  /\ fn_out.returned = sanitize_json_data(fn_out.attempts[k])
        /\ pc = "return" /\ fn_out.returned = JNull =>
              /\ Len(fn_out.attempts) = fn_in.max_retries
              /\ \A k \in DOMAIN fn_out.attempts : fn_out.attempts[k].t = "error"

====
